---- MODULE Spec2Model ----
(***************************************************************************)
(* A model of the DnDStats probability engine: exact rational arithmetic,  *)
(* RandomVariable and its algebra, the dice constructors, Attack's outcome *)
(* probabilities and MultiAttack's combinatorial composition.              *)
(***************************************************************************)
EXTENDS Integers, Sequences, FiniteSets, TLC

VARIABLES rv, nops, args, atk, multi, out

vars == <<rv, nops, args, atk, multi, out>>

(* None is the empty sequence; an optional integer n is held as <<n>>. *)
None == << >>

(***************************************************************************)
(* fractions.Fraction: a pair <<numerator, denominator>> in lowest terms   *)
(* with a positive denominator.  Python ints take part as n/1.             *)
(***************************************************************************)
Abs(n) == IF n < 0 THEN -n ELSE n

RECURSIVE GCD(_, _)
GCD(a, b) == IF b = 0 THEN a ELSE GCD(b, a % b)

Fraction(n, d) ==
    LET g == GCD(Abs(n), Abs(d))
        s == IF d < 0 THEN -1 ELSE 1
    IN  <<(s * n) \div g, (s * d) \div g>>

Zero == <<0, 1>>
One == <<1, 1>>
FInt(n) == <<n, 1>>

FAdd(a, b) ==
    IF a[2] = b[2]
    THEN Fraction(a[1] + b[1], a[2])
    ELSE LET g == GCD(a[2], b[2])
         IN  Fraction(a[1] * (b[2] \div g) + b[1] * (a[2] \div g), a[2] * (b[2] \div g))

FNeg(a) == <<-a[1], a[2]>>

FSub(a, b) == FAdd(a, FNeg(b))

FMul(a, b) ==
    LET g1 == GCD(Abs(a[1]), b[2])
        g2 == GCD(Abs(b[1]), a[2])
    IN  <<(a[1] \div g1) * (b[1] \div g2), (a[2] \div g2) * (b[2] \div g1)>>

FLeq(a, b) == a[1] * b[2] <= b[1] * a[2]

Min(a, b) == IF a < b THEN a ELSE b
Max(a, b) == IF a > b THEN a ELSE b

(* A probability rule held as an explicit table over its domain. *)
Table(f) == f @@ << >>

(***************************************************************************)
(* RandomVariable.py                                                       *)
(***************************************************************************)
RECURSIVE summation(_, _, _)
summation(lb, ub, f) ==
    IF lb > ub THEN Zero ELSE FAdd(summation(lb, ub - 1, f), f[ub])

RandomVariable(lower_bound, upper_bound) ==
    [lower_bound |-> lower_bound, upper_bound |-> upper_bound, pdf_ |-> None]

set_pdf(self, f) == [self EXCEPT !.pdf_ = Table(f)]

get_lb(self) == self.lower_bound
get_ub(self) == self.upper_bound

pdf_unguarded(self, x) ==
    IF x \in DOMAIN self.pdf_ THEN self.pdf_[x] ELSE Zero

pdf(self, x) ==
    IF x < self.lower_bound THEN Zero
    ELSE IF x > self.upper_bound THEN Zero
    ELSE self.pdf_[x]

cdf_exclusive(self, x) ==
    summation(self.lower_bound, x - 1, [i \in self.lower_bound..x |-> pdf(self, i)])

cdf(self, x) ==
    summation(self.lower_bound, x, [i \in self.lower_bound..x |-> pdf(self, i)])

get_pdf_dict(self) ==
    [x \in self.lower_bound..self.upper_bound |-> pdf(self, x)]

memoize(self) == set_pdf(self, get_pdf_dict(self))

copy(self) ==
    set_pdf(RandomVariable(self.lower_bound, self.upper_bound), get_pdf_dict(self))

expected_value_truncated(self) ==
    summation(self.lower_bound, self.upper_bound - 1,
              [x \in self.lower_bound..self.upper_bound |-> FMul(FInt(x), pdf(self, x))])

expected_value(self) ==
    summation(self.lower_bound, self.upper_bound,
              [x \in self.lower_bound..self.upper_bound |-> FMul(FInt(x), pdf(self, x))])

expected_square(self) ==
    summation(self.lower_bound, self.upper_bound,
              [x \in self.lower_bound..self.upper_bound |-> FMul(FInt(x * x), pdf(self, x))])

variance(self) ==
    FSub(expected_square(self), FMul(expected_value(self), expected_value(self)))

maxPdf_inclusive(self, x) ==
    FAdd(FMul(FMul(FInt(2), pdf(self, x)), cdf(self, x)),
         FMul(pdf(self, x), pdf(self, x)))

maxPdf(self, x) ==
    FAdd(FMul(FMul(FInt(2), pdf(self, x)), cdf(self, x - 1)),
         FMul(pdf(self, x), pdf(self, x)))

max_two_trials(self) ==
    set_pdf(RandomVariable(self.lower_bound, self.upper_bound),
            [x \in self.lower_bound..self.upper_bound |-> maxPdf(self, x)])

min_two_trials(self) ==
    set_pdf(RandomVariable(self.lower_bound, self.upper_bound),
            [x \in self.lower_bound..self.upper_bound |->
                FSub(FMul(FInt(2), pdf(self, x)), maxPdf(self, x))])

max3Pdf(self, x) ==
    LET p == pdf(self, x)
        F == cdf(self, x - 1)
    IN  FAdd(FAdd(FMul(FMul(FInt(3), p), FMul(F, F)),
                  FMul(FMul(FInt(3), FMul(p, p)), F)),
             FMul(p, FMul(p, p)))

max_three_trials(self) ==
    set_pdf(RandomVariable(self.lower_bound, self.upper_bound),
            [x \in self.lower_bound..self.upper_bound |-> max3Pdf(self, x)])

convolution_truncated(f1, f2, lb, ub, x) ==
    summation(lb, ub - 1, [y \in lb..ub |-> FMul(pdf(f1, x - y), pdf(f2, y))])

convolution(f1, f2, lb, ub, x) ==
    summation(lb, ub, [y \in lb..ub |-> FMul(pdf(f1, x - y), pdf(f2, y))])

add_rv_short(self, other) ==
    LET true_lb == Min(self.lower_bound, other.lower_bound)
        true_ub == self.upper_bound
    IN  set_pdf(RandomVariable(self.lower_bound + other.lower_bound,
                               self.upper_bound + other.upper_bound),
                [x \in (self.lower_bound + other.lower_bound)
                       ..(self.upper_bound + other.upper_bound) |->
                    convolution(self, other, true_lb, true_ub, x)])

add_rv(self, other) ==
    LET true_lb == Min(self.lower_bound, other.lower_bound)
        true_ub == Max(self.upper_bound, other.upper_bound)
    IN  set_pdf(RandomVariable(self.lower_bound + other.lower_bound,
                               self.upper_bound + other.upper_bound),
                [x \in (self.lower_bound + other.lower_bound)
                       ..(self.upper_bound + other.upper_bound) |->
                    convolution(self, other, true_lb, true_ub, x)])

TruncHalf(v) == IF v >= 0 THEN v \div 2 ELSE -((-v) \div 2)

half_round_to_zero(self) ==
    LET lb == TruncHalf(self.lower_bound)
        ub == TruncHalf(self.upper_bound)
    IN  set_pdf(RandomVariable(lb, ub),
                [x \in lb..ub |->
                    summation(self.lower_bound, self.upper_bound,
                              [v \in self.lower_bound..self.upper_bound |->
                                  IF TruncHalf(v) = x THEN pdf(self, v) ELSE Zero])])

half_round_down_even(self) ==
    LET lb == self.lower_bound \div 2
        ub == self.upper_bound \div 2
    IN  set_pdf(RandomVariable(lb, ub), [x \in lb..ub |-> pdf(self, 2 * x)])

half_round_down(self) ==
    LET lb == self.lower_bound \div 2
        ub == self.upper_bound \div 2
    IN  set_pdf(RandomVariable(lb, ub),
                [x \in lb..ub |-> FAdd(pdf(self, 2 * x), pdf(self, 2 * x + 1))])

(***************************************************************************)
(* PyDnDStats/Common.py                                                    *)
(***************************************************************************)
Dice(die_size) ==
    set_pdf(RandomVariable(1, die_size), [x \in 1..die_size |-> Fraction(1, die_size)])

DiceReroll(die_size, reroll_max) ==
    set_pdf(RandomVariable(1, die_size),
            [x \in 1..die_size |->
                IF x > reroll_max
                THEN FAdd(Fraction(1, die_size),
                          FMul(Fraction(reroll_max, die_size), Fraction(1, die_size)))
                ELSE FMul(Fraction(reroll_max, die_size), Fraction(1, die_size))])

Constant(value) ==
    set_pdf(RandomVariable(value, value), [x \in value..value |-> One])

Uniform(lb, ub) ==
    set_pdf(RandomVariable(lb, ub), [x \in lb..ub |-> Fraction(1, ub - lb + 1)])

(***************************************************************************)
(* PyDnDStats/HitEnums.py, Outcomes.py                                     *)
(***************************************************************************)
HitOutcome == <<"MISS", "HIT", "CRIT">>
HitOutcomes == {"MISS", "HIT", "CRIT"}

HitType == {"DISADVANTAGE", "NORMAL", "ADVANTAGE", "SUPER_ADVANTAGE"}

Outcomes ==
    [outcome_chance_dict |-> None, outcome_rv_dict |-> None,
     condense_outliers |-> TRUE, cap_lb |-> None, cap_ub |-> None]

(***************************************************************************)
(* Attack.py: Attack.__init__                                              *)
(***************************************************************************)
D20 == 20

firstD20(halfling_lucky) ==
    IF halfling_lucky THEN DiceReroll(D20, 1) ELSE Dice(D20)

(* overallD20 for each (hit_type, halfling_lucky), tabulated once. *)
overallD20 ==
    Table([c \in HitType \X BOOLEAN |->
        IF c[1] = "NORMAL" THEN firstD20(c[2])
        ELSE IF c[1] = "DISADVANTAGE" THEN min_two_trials(firstD20(c[2]))
        ELSE IF c[1] = "ADVANTAGE" THEN max_two_trials(firstD20(c[2]))
        ELSE max_three_trials(firstD20(c[2]))])

crit_chance_inclusive(d20, crit_lb) == FSub(One, cdf(d20, crit_lb))

crit_chance(d20, crit_lb) == FSub(One, cdf(d20, crit_lb - 1))

auto_miss_chance(d20) == pdf(d20, 1)

hit_miss_rv(d20, crit_lb, bonuses) ==
    LET hit_miss_d20 == set_pdf(RandomVariable(2, crit_lb - 1),
                                [x \in 2..(crit_lb - 1) |-> pdf(d20, x)])
    IN  add_rv(hit_miss_d20, bonuses)

reg_miss_chance(hm, target) == cdf(hm, target - 1)

hit_chance_complement(hm, target) == FSub(One, cdf(hm, target - 1))

hit_chance(hm, target) == FSub(cdf(hm, get_ub(hm)), cdf(hm, target - 1))

chance_dict(auto_crit, auto_miss, reg_miss, hit, crit) ==
    [o \in HitOutcomes |->
        IF o = "MISS" THEN FAdd(auto_miss, reg_miss)
        ELSE IF auto_crit
             THEN (IF o = "HIT" THEN Zero ELSE FAdd(hit, crit))
             ELSE (IF o = "HIT" THEN hit ELSE crit)]

Attack(bonus_rv, armor_class, hit_type, crit_lb, halfling_lucky, auto_crit) ==
    LET d20 == overallD20[<<hit_type, halfling_lucky>>]
        hm == hit_miss_rv(d20, crit_lb, bonus_rv)
        crit == crit_chance(d20, crit_lb)
        auto_miss == auto_miss_chance(d20)
        reg_miss == reg_miss_chance(hm, armor_class)
        hit == hit_chance(hm, armor_class)
    IN  [Outcomes EXCEPT
            !.outcome_chance_dict = chance_dict(auto_crit, auto_miss, reg_miss, hit, crit),
            !.cap_lb = <<0>>]
        @@ [bonuses |-> bonus_rv, target |-> armor_class, hit_type |-> hit_type,
            crit_lb |-> crit_lb, halfling_lucky |-> halfling_lucky,
            auto_crit |-> auto_crit, crit_chance |-> crit,
            auto_miss_chance |-> auto_miss, hit_miss_rv |-> hm,
            reg_miss_chance |-> reg_miss, hit_chance |-> hit,
            damage_rv |-> None, crit_damage_rv |-> None,
            resisted_dmg_rv |-> None, resisted_crit_dmg_rv |-> None,
            is_setup_ |-> FALSE]

get_outcome_chance(self, outcome) == self.outcome_chance_dict[outcome]

(***************************************************************************)
(* Attacks constructed over to-hit bonuses and integer armor classes.      *)
(***************************************************************************)
MinCritLb == 2
MaxTarget == 26
TargetStep == 4

AttackBonuses == {Constant(5), Dice(4)}

Targets == {t \in 0..MaxTarget : t % TargetStep = MaxTarget % TargetStep} \cup {14}

InitAttack ==
    /\ rv = None
    /\ nops = 0
    /\ args \in [bonus_rv : AttackBonuses, armor_class : Targets, hit_type : HitType,
                 crit_lb : MinCritLb..D20, halfling_lucky : BOOLEAN, auto_crit : BOOLEAN]
    /\ atk = None
    /\ multi = None
    /\ out = None

NewAttack ==
    /\ atk = None
    /\ atk' = Attack(args.bonus_rv, args.armor_class, args.hit_type, args.crit_lb,
                     args.halfling_lucky, args.auto_crit)
    /\ UNCHANGED <<rv, nops, args, multi, out>>

NextAttack == NewAttack

SpecAttack == InitAttack /\ [][NextAttack]_vars

\* C8: for every Attack the probabilities of MISS, HIT and CRIT are each in
\* [0,1] and sum to exactly 1.
C8_ChancesSumToOne ==
    atk # None =>
        /\ \A o \in HitOutcomes :
            /\ FLeq(Zero, get_outcome_chance(atk, o))
            /\ FLeq(get_outcome_chance(atk, o), One)
        /\ FAdd(FAdd(get_outcome_chance(atk, "MISS"), get_outcome_chance(atk, "HIT")),
                get_outcome_chance(atk, "CRIT")) = One

\* An attack with triple advantage, the lucky reroll, a d4 bonus and a crit
\* range starting at 18 whose target lies inside the reachable totals.
C8_Witness ==
    /\ atk # None
    /\ atk.hit_type = "SUPER_ADVANTAGE"
    /\ atk.halfling_lucky
    /\ atk.bonuses = Dice(4)
    /\ atk.crit_lb = 18
    /\ atk.target = 14
    /\ get_outcome_chance(atk, "HIT") # Zero
    /\ get_outcome_chance(atk, "MISS") # atk.auto_miss_chance

(***************************************************************************)
(* The d20 rule stated on the dice themselves: every die is a pair (first  *)
(* roll, second roll) of which the second counts only when the first is a  *)
(* 1 and the attacker is lucky; the effective roll is the die, the lower   *)
(* of two, the higher of two or the highest of three.                      *)
(***************************************************************************)
RECURSIVE ISum(_, _, _)
ISum(lo, hi, f) == IF lo > hi THEN 0 ELSE ISum(lo, hi - 1, f) + f[hi]

DieValue(halfling_lucky, first, second) ==
    IF halfling_lucky /\ first = 1 THEN second ELSE first

DieWays(halfling_lucky) ==
    [v \in 1..D20 |->
        Cardinality({p \in (1..D20) \X (1..D20) : DieValue(halfling_lucky, p[1], p[2]) = v})]

NumDice(hit_type) ==
    IF hit_type = "NORMAL" THEN 1
    ELSE IF hit_type = "SUPER_ADVANTAGE" THEN 3 ELSE 2

RollWays(hit_type, halfling_lucky) ==
    LET w == Table(DieWays(halfling_lucky))
    IN  [k \in 1..D20 |->
            IF hit_type = "NORMAL" THEN w[k]
            ELSE IF hit_type = "DISADVANTAGE"
                 THEN ISum(k, D20, [a \in k..D20 |->
                        ISum(k, D20, [b \in k..D20 |->
                            IF Min(a, b) = k THEN w[a] * w[b] ELSE 0])])
            ELSE IF hit_type = "ADVANTAGE"
                 THEN ISum(1, k, [a \in 1..k |->
                        ISum(1, k, [b \in 1..k |->
                            IF Max(a, b) = k THEN w[a] * w[b] ELSE 0])])
            ELSE ISum(1, k, [a \in 1..k |->
                    ISum(1, k, [b \in 1..k |->
                        ISum(1, k, [c \in 1..k |->
                            IF Max(a, Max(b, c)) = k THEN w[a] * w[b] * w[c] ELSE 0])])])]

RollChance ==
    Table([c \in HitType \X BOOLEAN |->
        LET ways == Table(RollWays(c[1], c[2]))
            all == ISum(1, D20, ways)
        IN  Table([k \in 1..D20 |-> Fraction(ways[k], all)])])

RuleOutcome(r, b, target, crit_lb, auto_crit) ==
    IF r = 1 THEN "MISS"
    ELSE IF r >= crit_lb THEN "CRIT"
    ELSE IF r + b >= target THEN (IF auto_crit THEN "CRIT" ELSE "HIT")
    ELSE "MISS"

RuleChance(a, o) ==
    LET roll == RollChance[<<a.hit_type, a.halfling_lucky>>]
    IN  summation(1, D20, [r \in 1..D20 |->
            summation(a.bonus_rv.lower_bound, a.bonus_rv.upper_bound,
                [b \in a.bonus_rv.lower_bound..a.bonus_rv.upper_bound |->
                    IF RuleOutcome(r, b, a.armor_class, a.crit_lb, a.auto_crit) = o
                    THEN FMul(roll[r], pdf(a.bonus_rv, b))
                    ELSE Zero])])

\* C9: an Attack's outcome probabilities equal those of the d20 rule (natural
\* 1 misses, a roll at or above the crit threshold crits, otherwise roll +
\* bonus >= target hits; auto_crit turns every HIT into a CRIT); bonus 5,
\* target 14, NORMAL, crit on 20 gives MISS 2/5, HIT 11/20, CRIT 1/20.
C9_MatchesD20Rule ==
    atk # None =>
        /\ \A o \in HitOutcomes : get_outcome_chance(atk, o) = RuleChance(args, o)
        /\ (args = [bonus_rv |-> Constant(5), armor_class |-> 14, hit_type |-> "NORMAL",
                    crit_lb |-> D20, halfling_lucky |-> FALSE, auto_crit |-> FALSE]
            => /\ get_outcome_chance(atk, "MISS") = Fraction(2, 5)
               /\ get_outcome_chance(atk, "HIT") = Fraction(11, 20)
               /\ get_outcome_chance(atk, "CRIT") = Fraction(1, 20))

\* The attack of the worked example has been constructed.
C9_Witness ==
    /\ atk # None
    /\ args = [bonus_rv |-> Constant(5), armor_class |-> 14, hit_type |-> "NORMAL",
               crit_lb |-> D20, halfling_lucky |-> FALSE, auto_crit |-> FALSE]
    /\ get_outcome_chance(atk, "HIT") = Fraction(11, 20)

\* A lucky attacker with disadvantage and automatic crits: the rule's other
\* branches.
C9_WitnessLucky ==
    /\ atk # None
    /\ args.hit_type = "DISADVANTAGE" /\ args.halfling_lucky /\ args.auto_crit
    /\ args.crit_lb = 19 /\ args.armor_class = 14 /\ args.bonus_rv = Dice(4)
    /\ get_outcome_chance(atk, "CRIT") # atk.crit_chance

(***************************************************************************)
(* Enemy.py.  A Python value whose class is inspected is held with its     *)
(* class name: [type |-> "int", v |-> 14].                                 *)
(***************************************************************************)
PyInt(n) == [type |-> "int", v |-> n]
PyRV(r) == [type |-> "RandomVariable", v |-> r]
PyStr(t) == [type |-> "str", v |-> t]

RuntimeError(msg) == [raised |-> "RuntimeError", msg |-> msg]

Enemy(ac, hit_type, auto_crit) ==
    IF ac.type = "int"
    THEN [hit_type |-> hit_type, auto_crit |-> auto_crit, ac |-> Constant(ac.v)]
    ELSE IF ac.type = "RandomVariable"
    THEN [hit_type |-> hit_type, auto_crit |-> auto_crit, ac |-> ac.v]
    ELSE RuntimeError("ac should be an int or an RV")

get_ac(self) == self.ac

(***************************************************************************)
(* The Attack built against an Enemy, whose armor class is a distribution: *)
(* the miss and hit chances sum the bonus-vs-threshold relation weighted   *)
(* by the threshold's own PMF (section 4.2 of the specification).          *)
(***************************************************************************)
rv_reg_miss_chance_unweighted(hm, ac) ==
    summation(get_lb(ac), get_ub(ac),
              [t \in get_lb(ac)..get_ub(ac) |-> cdf(hm, t - 1)])

rv_reg_miss_chance(hm, ac) ==
    summation(get_lb(ac), get_ub(ac),
              [t \in get_lb(ac)..get_ub(ac) |-> FMul(pdf(ac, t), cdf(hm, t - 1))])

rv_hit_chance(hm, ac) ==
    summation(get_lb(ac), get_ub(ac),
              [t \in get_lb(ac)..get_ub(ac) |->
                  FMul(pdf(ac, t), FSub(cdf(hm, get_ub(hm)), cdf(hm, t - 1)))])

EnemyAttack(bonus_rv, enemy, crit_lb, halfling_lucky) ==
    LET d20 == overallD20[<<enemy.hit_type, halfling_lucky>>]
        hm == hit_miss_rv(d20, crit_lb, bonus_rv)
        crit == crit_chance(d20, crit_lb)
        auto_miss == auto_miss_chance(d20)
        reg_miss == rv_reg_miss_chance(hm, get_ac(enemy))
        hit == rv_hit_chance(hm, get_ac(enemy))
    IN  [Outcomes EXCEPT
            !.outcome_chance_dict =
                chance_dict(enemy.auto_crit, auto_miss, reg_miss, hit, crit),
            !.cap_lb = <<0>>]
        @@ [bonuses |-> bonus_rv, target |-> get_ac(enemy), hit_type |-> enemy.hit_type,
            crit_lb |-> crit_lb, halfling_lucky |-> halfling_lucky,
            auto_crit |-> enemy.auto_crit, crit_chance |-> crit,
            auto_miss_chance |-> auto_miss, hit_miss_rv |-> hm,
            reg_miss_chance |-> reg_miss, hit_chance |-> hit,
            damage_rv |-> None, crit_damage_rv |-> None,
            resisted_dmg_rv |-> None, resisted_crit_dmg_rv |-> None,
            is_setup_ |-> FALSE]

(***************************************************************************)
(* Attacks against enemies of uncertain armor class.                       *)
(***************************************************************************)
EnemyACs == {Uniform(10, 13), add_rv(Constant(12), DiceReroll(2, 1))}

InitEnemyAttack ==
    /\ rv = None
    /\ nops = 0
    /\ args \in [bonus_rv : AttackBonuses, armor_class : EnemyACs, hit_type : HitType,
                 crit_lb : MinCritLb..D20, halfling_lucky : BOOLEAN, auto_crit : BOOLEAN]
    /\ atk = None
    /\ multi = None
    /\ out = None

NewEnemyAttack ==
    /\ atk = None
    /\ atk' = EnemyAttack(args.bonus_rv,
                          Enemy(PyRV(args.armor_class), args.hit_type, args.auto_crit),
                          args.crit_lb, args.halfling_lucky)
    /\ UNCHANGED <<rv, nops, args, multi, out>>

NextEnemyAttack == NewEnemyAttack

SpecEnemyAttack == InitEnemyAttack /\ [][NextEnemyAttack]_vars

ConstantTargetChance(a, t, o) ==
    get_outcome_chance(
        Attack(a.bonus_rv, t, a.hit_type, a.crit_lb, a.halfling_lucky, a.auto_crit), o)

DicePart(num, size) == [num |-> num, size |-> size, reroll |-> None]
RerollPart(num, size, reroll) == [num |-> num, size |-> size, reroll |-> <<reroll>>]
StaticPart(n) == [static |-> n]

IsDicePart(part) == "size" \in DOMAIN part
IsStaticPart(part) == "static" \in DOMAIN part

RECURSIVE repeat_add_rv(_, _, _)
repeat_add_rv(total_die_rv, base_die_rv, times) ==
    IF times <= 0 THEN total_die_rv
    ELSE repeat_add_rv(add_rv(total_die_rv, base_die_rv), base_die_rv, times - 1)

create_die_rv_(num, size, reroll) ==
    LET base_die_rv == IF reroll = None THEN Dice(size) ELSE DiceReroll(size, reroll[1])
    IN  repeat_add_rv(base_die_rv, base_die_rv, num - 1)

RECURSIVE static_dmg_of(_, _)
static_dmg_of(expr, n) ==
    IF n = 0 THEN 0
    ELSE static_dmg_of(expr, n - 1) + (IF IsStaticPart(expr[n]) THEN expr[n].static ELSE 0)

(* The dict's dice keys in insertion order: a part equal to an earlier one *)
(* overwrites that entry and adds none.                                    *)
RECURSIVE dice_keys_of(_, _)
dice_keys_of(expr, n) ==
    IF n = 0 THEN << >>
    ELSE LET before == dice_keys_of(expr, n - 1)
         IN  IF IsDicePart(expr[n]) /\ ~(\E i \in 1..Len(before) : before[i] = expr[n])
             THEN Append(before, expr[n])
             ELSE before

parse_dmg_expr_(expr) ==
    IF \E i \in 1..Len(expr) : ~IsDicePart(expr[i]) /\ ~IsStaticPart(expr[i])
    THEN RuntimeError("Can't have 'r' without 'd'")
    ELSE [keys |-> dice_keys_of(expr, Len(expr)),
          static |-> Constant(static_dmg_of(expr, Len(expr)))]

RECURSIVE other_dmg_of(_, _)
other_dmg_of(keys, n) ==
    LET dmg == create_die_rv_(keys[n].num, keys[n].size, keys[n].reroll)
    IN  IF n = 1 THEN dmg ELSE add_rv(other_dmg_of(keys, n - 1), dmg)

AttributeError(msg) == [raised |-> "AttributeError", msg |-> msg]

set_damage(self, dmg_expr) ==
    LET damage_dict == parse_dmg_expr_(dmg_expr)
        static_dmg == damage_dict.static
        other_dmg == other_dmg_of(damage_dict.keys, Len(damage_dict.keys))
        crit_damage == add_rv(other_dmg, other_dmg)
    IN  IF "raised" \in DOMAIN damage_dict THEN damage_dict
        ELSE IF Len(damage_dict.keys) = 0
        THEN AttributeError("'NoneType' object has no attribute 'add_rv'")
        ELSE [self EXCEPT !.damage_rv = memoize(add_rv(other_dmg, static_dmg)),
                          !.crit_rv = memoize(add_rv(crit_damage, static_dmg))]

Damage(dmg_expr, resisted) ==
    set_damage([damage_rv |-> None, crit_rv |-> None, resisted |-> resisted], dmg_expr)

(***************************************************************************)
(* DamageSum.py                                                            *)
(***************************************************************************)
DamageSum ==
    [damage_rv |-> None, crit_damage_rv |-> None,
     resisted_dmg_rv |-> None, resisted_crit_dmg_rv |-> None]

has_damage(self) == self.damage_rv # None \/ self.resisted_dmg_rv # None

accumulate(acc, dmg_rv) == IF acc = None THEN dmg_rv ELSE add_rv(acc, dmg_rv)

DamageSum_add_damage(self, damage) ==
    IF damage.resisted
    THEN [self EXCEPT
            !.resisted_dmg_rv = memoize(accumulate(self.resisted_dmg_rv, damage.damage_rv)),
            !.resisted_crit_dmg_rv =
                memoize(accumulate(self.resisted_crit_dmg_rv, damage.crit_rv))]
    ELSE [self EXCEPT
            !.damage_rv = memoize(accumulate(self.damage_rv, damage.damage_rv)),
            !.crit_damage_rv = memoize(accumulate(self.crit_damage_rv, damage.crit_rv))]

merge_resisted_only(unresisted, resisted) ==
    IF resisted = None THEN unresisted ELSE half_round_down(resisted)

merge_resisted(unresisted, resisted) ==
    IF resisted = None THEN unresisted
    ELSE IF unresisted = None THEN half_round_down(resisted)
    ELSE add_rv(unresisted, half_round_down(resisted))

DamageSum_get_outcome_rv(self, outcome) ==
    IF ~has_damage(self) THEN RuntimeError("damage/resisted dmg RV is not set")
    ELSE IF outcome = "MISS" THEN Constant(0)
    ELSE IF outcome = "HIT" THEN merge_resisted(self.damage_rv, self.resisted_dmg_rv)
    ELSE merge_resisted(self.crit_damage_rv, self.resisted_crit_dmg_rv)

(***************************************************************************)
(* Attack.py: add_damage, finish_setup                                     *)
(***************************************************************************)
Attack_add_damage(self, damage) ==
    IF damage.resisted
    THEN [self EXCEPT
            !.resisted_dmg_rv = accumulate(self.resisted_dmg_rv, damage.damage_rv),
            !.resisted_crit_dmg_rv = accumulate(self.resisted_crit_dmg_rv, damage.crit_rv)]
    ELSE [self EXCEPT
            !.damage_rv = accumulate(self.damage_rv, damage.damage_rv),
            !.crit_damage_rv = accumulate(self.crit_damage_rv, damage.crit_rv)]

finish_setup_unchecked(self) ==
    IF self.is_setup_ THEN self
    ELSE
    [self EXCEPT
        !.outcome_rv_dict =
            [o \in HitOutcomes |->
                IF o = "MISS" THEN Constant(0)
                ELSE IF o = "HIT"
                THEN merge_resisted(self.damage_rv, self.resisted_dmg_rv)
                ELSE merge_resisted(self.crit_damage_rv, self.resisted_crit_dmg_rv)],
        !.is_setup_ = TRUE]

finish_setup_again(self) ==
    IF self.damage_rv = None /\ self.resisted_dmg_rv = None
    THEN RuntimeError("damage/resisted dmg RV is not set")
    ELSE
    [self EXCEPT
        !.outcome_rv_dict =
            [o \in HitOutcomes |->
                IF o = "MISS" THEN Constant(0)
                ELSE IF o = "HIT"
                THEN merge_resisted(self.damage_rv, self.resisted_dmg_rv)
                ELSE merge_resisted(self.crit_damage_rv, self.resisted_crit_dmg_rv)],
        !.is_setup_ = TRUE]

finish_setup(self) ==
    IF self.is_setup_ THEN self
    ELSE IF self.damage_rv = None /\ self.resisted_dmg_rv = None
    THEN RuntimeError("damage/resisted dmg RV is not set")
    ELSE [self EXCEPT
            !.outcome_rv_dict =
                [o \in HitOutcomes |->
                    IF o = "MISS" THEN Constant(0)
                    ELSE IF o = "HIT"
                    THEN merge_resisted(self.damage_rv, self.resisted_dmg_rv)
                    ELSE merge_resisted(self.crit_damage_rv, self.resisted_crit_dmg_rv)],
            !.is_setup_ = TRUE]

(***************************************************************************)
(* OutcomeRV.py                                                            *)
(***************************************************************************)
get_outcomes(self) == HitOutcome

get_outcome_rv(self, outcome) == self.outcome_rv_dict[outcome]

get_bounds(self) ==
    LET rvs == self.outcome_rv_dict
        lb == Min(rvs["MISS"].lower_bound, Min(rvs["HIT"].lower_bound, rvs["CRIT"].lower_bound))
        ub == Max(rvs["MISS"].upper_bound, Max(rvs["HIT"].upper_bound, rvs["CRIT"].upper_bound))
    IN  <<IF self.cap_lb # None THEN self.cap_lb[1] ELSE lb,
          IF self.cap_ub # None THEN self.cap_ub[1] ELSE ub>>

outcome_pdf_(self, f) ==
    FAdd(FAdd(FMul(get_outcome_chance(self, "MISS"), f["MISS"]),
              FMul(get_outcome_chance(self, "HIT"), f["HIT"])),
         FMul(get_outcome_chance(self, "CRIT"), f["CRIT"]))

OutcomeRV_pdf_unfolded(self, x) ==
    LET lb_set == self.cap_lb # None
        ub_set == self.cap_ub # None
        f == IF ub_set /\ x = self.cap_ub[1]
             THEN [o \in HitOutcomes |-> FSub(One, cdf(get_outcome_rv(self, o), x))]
             ELSE [o \in HitOutcomes |-> pdf(get_outcome_rv(self, o), x)]
    IN  IF lb_set /\ x < self.cap_lb[1] THEN Zero
        ELSE IF ub_set /\ x > self.cap_ub[1] THEN Zero
        ELSE outcome_pdf_(self, f)

OutcomeRV_pdf(self, x) ==
    LET lb_set == self.cap_lb # None
        ub_set == self.cap_ub # None
        f == IF ub_set /\ x = self.cap_ub[1]
             THEN [o \in HitOutcomes |-> FSub(One, cdf(get_outcome_rv(self, o), x))]
             ELSE IF lb_set /\ x = self.cap_lb[1]
             THEN [o \in HitOutcomes |-> cdf(get_outcome_rv(self, o), x)]
             ELSE [o \in HitOutcomes |-> pdf(get_outcome_rv(self, o), x)]
    IN  IF lb_set /\ x < self.cap_lb[1] THEN Zero
        ELSE IF ub_set /\ x > self.cap_ub[1] THEN Zero
        ELSE outcome_pdf_(self, f)

get_rv(self) ==
    LET bounds == get_bounds(self)
    IN  memoize(set_pdf(RandomVariable(bounds[1], bounds[2]),
                        [x \in bounds[1]..bounds[2] |-> OutcomeRV_pdf(self, x)]))

(***************************************************************************)
(* MultiAttack.py.  An optional scalar is None or the one-element tuple of *)
(* its value.                                                              *)
(***************************************************************************)
MultiAttack ==
    [attacks |-> << >>, first_hit_damage |-> DamageSum,
     damage_max |-> None, damage_min_ub |-> None,
     miss_atk |-> None, miss_atk_ub |-> None,
     crit_atk |-> None, crit_atk_ub |-> None, debug |-> FALSE]

append_attack_(self, ready, ub) ==
    [self EXCEPT
        !.attacks = Append(self.attacks, ready),
        !.damage_max = IF self.damage_max = None THEN <<ub>>
                       ELSE <<self.damage_max[1] + ub>>,
        !.damage_min_ub = IF self.damage_min_ub = None THEN <<ub>>
                          ELSE IF ub < self.damage_min_ub[1] THEN <<ub>>
                          ELSE self.damage_min_ub]

ready_attack_(self, ready) == append_attack_(self, ready, get_bounds(ready)[2])

add_attack(self, attack) == ready_attack_(self, finish_setup(attack))

ready_miss_atk_(self, ready) ==
    [self EXCEPT !.miss_atk = ready, !.miss_atk_ub = <<get_bounds(ready)[2]>>]

add_miss_extra_attack(self, attack) == ready_miss_atk_(self, finish_setup(attack))

ready_crit_atk_(self, ready) ==
    [self EXCEPT !.crit_atk = ready, !.crit_atk_ub = <<get_bounds(ready)[2]>>]

add_crit_extra_attack(self, attack) == ready_crit_atk_(self, finish_setup(attack))

add_first_hit_damage(self, damage) ==
    [self EXCEPT !.first_hit_damage = DamageSum_add_damage(self.first_hit_damage, damage)]

has_bonus_atk(self) == self.miss_atk # None \/ self.crit_atk # None

is_not_miss_ == [outcome \in HitOutcomes |-> outcome # "MISS"]
is_miss_or_hit_ == [outcome \in HitOutcomes |-> outcome # "CRIT"]
is_miss_ == [outcome \in HitOutcomes |-> outcome = "MISS"]
is_crit_ == [outcome \in HitOutcomes |-> outcome = "CRIT"]

pick_first_passing_outcome_(outcomes, criteria) ==
    LET passing == {i \in 1..Len(outcomes) : criteria[outcomes[i]]}
    IN  IF passing = {} THEN None
        ELSE <<outcomes[CHOOSE i \in passing : \A j \in passing : i <= j]>>

get_fhd_dmg_rv_(self, outcome) ==
    IF has_damage(self.first_hit_damage)
    THEN DamageSum_get_outcome_rv(self.first_hit_damage, outcome)
    ELSE Constant(0)

handle_fh_outcome_last_(self, outcomes, input_rv) ==
    LET passing == {i \in 1..Len(outcomes) : is_not_miss_[outcomes[i]]}
    IN  IF passing # {}
        THEN memoize(add_rv(input_rv,
                get_fhd_dmg_rv_(self,
                    outcomes[CHOOSE i \in passing : \A j \in passing : j <= i])))
        ELSE input_rv

handle_fh_outcome_(self, outcomes, input_rv) ==
    LET fh_outcome == pick_first_passing_outcome_(outcomes, is_not_miss_)
    IN  IF fh_outcome # None
        THEN memoize(add_rv(input_rv, get_fhd_dmg_rv_(self, fh_outcome[1])))
        ELSE input_rv

RECURSIVE attack_outcome_chance_upto(_, _, _)
attack_outcome_chance_upto(self, outcomes, n) ==
    IF n = 0 THEN One
    ELSE FMul(attack_outcome_chance_upto(self, outcomes, n - 1),
              get_outcome_chance(self.attacks[n], outcomes[n]))

get_attack_outcome_chance_short_(self, outcomes) ==
    attack_outcome_chance_upto(self, outcomes, Len(outcomes) - 1)

get_attack_outcome_chance_(self, outcomes) ==
    attack_outcome_chance_upto(self, outcomes, Len(outcomes))

RECURSIVE attack_outcome_rvs_upto(_, _, _)
attack_outcome_rvs_upto(self, outcomes, n) ==
    IF n = 0 THEN Constant(0)
    ELSE memoize(add_rv(attack_outcome_rvs_upto(self, outcomes, n - 1),
                        get_outcome_rv(self.attacks[n], outcomes[n])))

get_attack_outcome_rvs_(self, outcomes) ==
    attack_outcome_rvs_upto(self, outcomes, Len(outcomes))

(* index counts from 0 as in the source; attacks[index] is the TLA+ element *)
(* index + 1.                                                              *)
RECURSIVE generate_outcomes_product_(_, _)
generate_outcomes_product_(self, index) ==
    LET this_outcomes == get_outcomes(self.attacks[index + 1])
        later_outcomes == generate_outcomes_product_(self, index + 1)
    IN  IF index = Len(self.attacks) - 1
        THEN [i \in 1..Len(this_outcomes) |-> <<this_outcomes[i]>>]
        ELSE [k \in 1..(Len(this_outcomes) * Len(later_outcomes)) |->
                <<this_outcomes[((k - 1) \div Len(later_outcomes)) + 1]>>
                \o later_outcomes[((k - 1) % Len(later_outcomes)) + 1]]

for_each_outcome(attack, body) ==
    LET outcomes == get_outcomes(attack)
    IN  body[outcomes[1]] \o body[outcomes[2]] \o body[outcomes[3]]

cell(outcomes, coeff, cell_rv) == [outcomes |-> outcomes, coeff |-> coeff, rv |-> cell_rv]

(* get_dmg_rv, the branch taken when the base outcomes hold a MISS and a   *)
(* miss-triggered attack is set: the entries it writes, in order.          *)
miss_branch_crit_(self, new_outcomes, new_coeff, new_rv) ==
    IF pick_first_passing_outcome_(new_outcomes, is_crit_) # None /\ self.crit_atk # None
    THEN for_each_outcome(self.crit_atk, [outcome_c \in HitOutcomes |->
            <<cell(Append(new_outcomes, outcome_c),
                   FMul(new_coeff, get_outcome_chance(self.crit_atk, outcome_c)),
                   handle_fh_outcome_(self, Append(new_outcomes, outcome_c),
                       memoize(add_rv(new_rv, get_outcome_rv(self.crit_atk, outcome_c)))))>>])
    ELSE <<cell(new_outcomes, new_coeff, handle_fh_outcome_(self, new_outcomes, new_rv))>>

miss_branch_(self, outcomes, outcome_coeff, attacks_rv) ==
    for_each_outcome(self.miss_atk, [outcome \in HitOutcomes |->
        miss_branch_crit_(self, Append(outcomes, outcome),
            FMul(outcome_coeff, get_outcome_chance(self.miss_atk, outcome)),
            memoize(add_rv(attacks_rv, get_outcome_rv(self.miss_atk, outcome))))])

(* get_dmg_rv, the branch taken otherwise when the base outcomes hold a    *)
(* CRIT and a crit-triggered attack is set.                                *)
crit_branch_no_miss_(self, new_outcomes, new_coeff, new_rv) ==
    <<cell(new_outcomes, new_coeff, handle_fh_outcome_(self, new_outcomes, new_rv))>>

crit_branch_miss_(self, new_outcomes, new_coeff, new_rv) ==
    IF pick_first_passing_outcome_(new_outcomes, is_miss_) # None /\ self.miss_atk # None
    THEN for_each_outcome(self.miss_atk, [outcome_m \in HitOutcomes |->
            <<cell(Append(new_outcomes, outcome_m),
                   FMul(new_coeff, get_outcome_chance(self.miss_atk, outcome_m)),
                   handle_fh_outcome_(self, Append(new_outcomes, outcome_m),
                       memoize(add_rv(new_rv, get_outcome_rv(self.miss_atk, outcome_m)))))>>])
    ELSE <<cell(new_outcomes, new_coeff, handle_fh_outcome_(self, new_outcomes, new_rv))>>

crit_branch_(self, outcomes, outcome_coeff, attacks_rv) ==
    for_each_outcome(self.crit_atk, [outcome \in HitOutcomes |->
        crit_branch_miss_(self, Append(outcomes, outcome),
            FMul(outcome_coeff, get_outcome_chance(self.crit_atk, outcome)),
            memoize(add_rv(attacks_rv, get_outcome_rv(self.crit_atk, outcome))))])

(* One iteration of get_dmg_rv's loop over all_outcomes.                   *)
outcome_branch_(self, outcomes, outcome_coeff, attacks_rv) ==
    IF pick_first_passing_outcome_(outcomes, is_miss_) # None /\ self.miss_atk # None
    THEN miss_branch_(self, outcomes, outcome_coeff, attacks_rv)
    ELSE IF pick_first_passing_outcome_(outcomes, is_crit_) # None /\ self.crit_atk # None
    THEN crit_branch_(self, outcomes, outcome_coeff, attacks_rv)
    ELSE <<cell(outcomes, outcome_coeff,
                handle_fh_outcome_(self, outcomes, attacks_rv))>>

outcome_cells_(self, outcomes) ==
    outcome_branch_(self, outcomes,
                    get_attack_outcome_chance_(self, outcomes),
                    get_attack_outcome_rvs_(self, outcomes))

(* The entries written by iterations lo..hi of the loop, in order.  The    *)
(* range is split in halves to keep the evaluation shallow.                *)
RECURSIVE cells_between(_, _, _, _)
cells_between(self, all_outcomes, lo, hi) ==
    IF lo > hi THEN << >>
    ELSE IF lo = hi THEN outcome_cells_(self, all_outcomes[lo])
    ELSE cells_between(self, all_outcomes, lo, (lo + hi) \div 2)
         \o cells_between(self, all_outcomes, ((lo + hi) \div 2) + 1, hi)

(* The dicts outcomes_coeffs and outcomes_rvs after the loop: keys in      *)
(* insertion order, each key holding the value written last.               *)
fresh_keys(before, later) ==
    SelectSeq(later, LAMBDA key : ~(\E i \in 1..Len(before) : before[i] = key))

RECURSIVE dict_keys(_, _, _)
dict_keys(cells, lo, hi) ==
    IF lo > hi THEN << >>
    ELSE IF lo = hi THEN <<cells[lo].outcomes>>
    ELSE LET before == dict_keys(cells, lo, (lo + hi) \div 2)
         IN  before \o fresh_keys(before, dict_keys(cells, ((lo + hi) \div 2) + 1, hi))

last_written(cells, key) ==
    cells[CHOOSE i \in 1..Len(cells) :
            /\ cells[i].outcomes = key
            /\ \A j \in 1..Len(cells) : cells[j].outcomes = key => j <= i]

(* overall_pdf's running total over the dict's items lo..hi; exact         *)
(* rational addition is associative, so the halves are summed apart.       *)
RECURSIVE overall_pdf_between(_, _, _, _, _, _)
overall_pdf_between(keys, outcomes_coeffs, outcomes_rvs, x, lo, hi) ==
    IF lo > hi THEN Zero
    ELSE IF lo = hi
    THEN FMul(outcomes_coeffs[keys[lo]], pdf(outcomes_rvs[keys[lo]], x))
    ELSE FAdd(overall_pdf_between(keys, outcomes_coeffs, outcomes_rvs, x,
                                  lo, (lo + hi) \div 2),
              overall_pdf_between(keys, outcomes_coeffs, outcomes_rvs, x,
                                  ((lo + hi) \div 2) + 1, hi))

overall_pdf(keys, outcomes_coeffs, outcomes_rvs, x) ==
    overall_pdf_between(keys, outcomes_coeffs, outcomes_rvs, x, 1, Len(keys))

bonus_max_(self) ==
    get_ub(get_fhd_dmg_rv_(self, "CRIT"))
    + (IF self.miss_atk_ub # None THEN self.miss_atk_ub[1] - self.damage_min_ub[1] ELSE 0)
    + (IF self.crit_atk_ub # None THEN self.crit_atk_ub[1] ELSE 0)

marginals_last_(self, n) ==
    IF n = 0 THEN Constant(0)
    ELSE memoize(get_rv(finish_setup(self.attacks[n])))

RECURSIVE marginals_upto(_, _)
marginals_upto(self, n) ==
    IF n = 0 THEN Constant(0)
    ELSE memoize(add_rv(marginals_upto(self, n - 1), get_rv(finish_setup(self.attacks[n]))))

IndexError(msg) == [raised |-> "IndexError", msg |-> msg]

(* The value get_dmg_rv returns is all_dmg_rv; the record keeps the locals *)
(* of the call beside it.                                                  *)
all_dmg_rv_(all_outcomes, keys, outcomes_coeffs, outcomes_rvs, ub) ==
    [path |-> "outcomes",
     all_outcomes |-> all_outcomes,
     keys |-> keys,
     outcomes_coeffs |-> outcomes_coeffs,
     outcomes_rvs |-> outcomes_rvs,
     all_dmg_rv |->
         memoize(set_pdf(RandomVariable(0, ub),
             [x \in 0..ub |-> overall_pdf(keys, outcomes_coeffs, outcomes_rvs, x)]))]

outcomes_dicts_(self, all_outcomes, cells, keys) ==
    all_dmg_rv_(all_outcomes, keys,
                [k \in {keys[i] : i \in 1..Len(keys)} |-> last_written(cells, k).coeff],
                [k \in {keys[i] : i \in 1..Len(keys)} |-> last_written(cells, k).rv],
                self.damage_max[1] + bonus_max_(self))

outcomes_loop_(self, all_outcomes, cells) ==
    outcomes_dicts_(self, all_outcomes, cells, dict_keys(cells, 1, Len(cells)))

outcomes_path_(self, all_outcomes) ==
    outcomes_loop_(self, all_outcomes, cells_between(self, all_outcomes, 1, Len(all_outcomes)))

get_dmg_rv(self) ==
    IF has_damage(self.first_hit_damage) \/ has_bonus_atk(self)
    THEN IF Len(self.attacks) = 0 THEN IndexError("list index out of range")
         ELSE outcomes_path_(self, generate_outcomes_product_(self, 0))
    ELSE [path |-> "marginals",
          all_dmg_rv |-> memoize(marginals_upto(self, Len(self.attacks)))]

(***************************************************************************)
(* The algebra exercised from the constructors: a RandomVariable is built  *)
(* and then transformed by at most MaxOps operations.  Python's integers   *)
(* are unbounded and the checker's are 32 bits wide: an order statistic    *)
(* (which cubes the denominators) is taken while the common denominator is *)
(* at most MaxDen, a sum while it is at most MaxDen * MaxDen.              *)
(***************************************************************************)
MaxDie == 2
MaxVal == 1
MaxOps == 2
MaxDen == 1000

BaseRVs ==
    {Dice(n) : n \in 1..MaxDie}
    \cup {DiceReroll(n, r) : <<n, r>> \in {p \in (1..MaxDie) \X (0..MaxDie) : p[2] <= p[1]}}
    \cup {Constant(v) : v \in (-MaxVal)..MaxVal}
    \cup {Uniform(p[1], p[2]) : p \in {q \in ((-MaxVal)..MaxVal) \X ((-MaxVal)..MaxVal) : q[1] <= q[2]}}

InitRV ==
    /\ rv \in BaseRVs
    /\ nops = 0
    /\ args = None
    /\ atk = None
    /\ multi = None
    /\ out = None

RECURSIVE CommonDenUpTo(_, _)
CommonDenUpTo(r, x) ==
    IF x < r.lower_bound THEN 1
    ELSE LET d == CommonDenUpTo(r, x - 1)
         IN  (d \div GCD(d, r.pdf_[x][2])) * r.pdf_[x][2]

CommonDen(r) == CommonDenUpTo(r, r.upper_bound)

RVStep(new) ==
    /\ nops < MaxOps
    /\ rv' = new
    /\ nops' = nops + 1
    /\ UNCHANGED <<args, atk, multi, out>>

TrialsStep(new) ==
    /\ CommonDen(rv) <= MaxDen
    /\ RVStep(new)

AddRv ==
    /\ CommonDen(rv) <= MaxDen * MaxDen
    /\ \E other \in BaseRVs : RVStep(add_rv(rv, other))
MaxTwoTrials == TrialsStep(max_two_trials(rv))
MinTwoTrials == TrialsStep(min_two_trials(rv))
MaxThreeTrials == TrialsStep(max_three_trials(rv))
HalfRoundDown == RVStep(half_round_down(rv))
Memoize == RVStep(memoize(rv))
Copy == RVStep(copy(rv))

NextRV ==
    \/ AddRv
    \/ MaxTwoTrials
    \/ MinTwoTrials
    \/ MaxThreeTrials
    \/ HalfRoundDown
    \/ Memoize
    \/ Copy

SpecRV == InitRV /\ [][NextRV]_vars

Margin == 3

TotalMass(r) == cdf(r, r.upper_bound)

\* C1: every RandomVariable built by Dice, DiceReroll, Constant or Uniform and
\* every one obtained from them by add_rv, max_two_trials, min_two_trials,
\* max_three_trials, half_round_down, memoize or copy has a pdf that sums to
\* exactly 1 over [lower_bound, upper_bound] and is 0 outside those bounds.
C1_PdfSumsToOne ==
    /\ TotalMass(rv) = One
    /\ \A k \in 1..Margin :
        /\ pdf(rv, rv.lower_bound - k) = Zero
        /\ pdf(rv, rv.upper_bound + k) = Zero

\* A sum of a rerolled die and a two-point uniform, halved afterwards: the
\* operations have acted and the result is not a single constructor's table.
C1_Witness ==
    /\ nops = 2
    /\ rv = half_round_down(add_rv(DiceReroll(2, 1), Uniform(-1, 0)))

(***************************************************************************)
(* A MultiAttack built a call at a time: attacks, a miss-triggered and a   *)
(* crit-triggered attack and first-hit damage are added in any order, then *)
(* get_dmg_rv is called.  The attacks have damage set before they are      *)
(* handed over, as in the test scripts.                                    *)
(***************************************************************************)
MaxAttacks == 2

PlainAttack ==
    Attack_add_damage(Attack(Constant(5), 11, "NORMAL", 11, FALSE, FALSE),
                      Damage(<<DicePart(1, 2)>>, FALSE))

PenalisedAttack ==
    Attack_add_damage(Attack(Constant(5), 14, "NORMAL", 11, FALSE, FALSE),
                      Damage(<<DicePart(1, 2), StaticPart(-2)>>, FALSE))

AttackPool == {PlainAttack, PenalisedAttack}

CritAttackPool == {PlainAttack}

FirstHitPool ==
    {Damage(<<DicePart(1, 2)>>, FALSE),
     Damage(<<DicePart(1, 2)>>, TRUE)}

InitMulti ==
    /\ rv = None
    /\ nops = 0
    /\ args = None
    /\ atk = None
    /\ multi = MultiAttack
    /\ out = None

AddAttack ==
    /\ out = None
    /\ Len(multi.attacks) < MaxAttacks
    /\ \E attack \in AttackPool : multi' = add_attack(multi, attack)
    /\ UNCHANGED <<rv, nops, args, atk, out>>

AddMissExtraAttack ==
    /\ out = None
    /\ multi.miss_atk = None
    /\ \E attack \in AttackPool : multi' = add_miss_extra_attack(multi, attack)
    /\ UNCHANGED <<rv, nops, args, atk, out>>

AddCritExtraAttack ==
    /\ out = None
    /\ multi.crit_atk = None
    /\ \E attack \in CritAttackPool : multi' = add_crit_extra_attack(multi, attack)
    /\ UNCHANGED <<rv, nops, args, atk, out>>

AddFirstHitDamage ==
    /\ out = None
    /\ ~has_damage(multi.first_hit_damage)
    /\ \E damage \in FirstHitPool : multi' = add_first_hit_damage(multi, damage)
    /\ UNCHANGED <<rv, nops, args, atk, out>>

GetDmgRv ==
    /\ out = None
    /\ out' = get_dmg_rv(multi)
    /\ UNCHANGED <<rv, nops, args, atk, multi>>

NextMulti ==
    \/ AddAttack
    \/ AddMissExtraAttack
    \/ AddCritExtraAttack
    \/ AddFirstHitDamage
    \/ GetDmgRv

SpecMulti == InitMulti /\ [][NextMulti]_vars

(* get_dmg_rv ran its loop over the outcome tuples.                        *)
Expanded == out # None /\ "outcomes_coeffs" \in DOMAIN out

(***************************************************************************)
(* What a cell of the expansion is made of, read off its key: the first    *)
(* NumAttacks slots are the base attacks' outcomes, the slots after them   *)
(* the outcomes of the triggered attacks in the order they were rolled.    *)
(***************************************************************************)
NumAttacks == Len(multi.attacks)
CellKeys == DOMAIN out.outcomes_coeffs
BaseTuples == {out.all_outcomes[i] : i \in 1..Len(out.all_outcomes)}
BaseOf(k) == SubSeq(k, 1, NumAttacks)
HasMiss(t) == \E i \in 1..Len(t) : t[i] = "MISS"
HasCrit(t) == \E i \in 1..Len(t) : t[i] = "CRIT"

TriggeredOrder(t) ==
    IF HasMiss(t) /\ multi.miss_atk # None
    THEN <<multi.miss_atk, multi.crit_atk>>
    ELSE <<multi.crit_atk, multi.miss_atk>>

SlotAttack(k, j) ==
    IF j <= NumAttacks THEN multi.attacks[j] ELSE TriggeredOrder(BaseOf(k))[j - NumAttacks]

RECURSIVE SlotChance(_, _)
SlotChance(k, j) ==
    IF j = 0 THEN One
    ELSE FMul(SlotChance(k, j - 1), SlotAttack(k, j).outcome_chance_dict[k[j]])

RECURSIVE SlotDamage(_, _)
SlotDamage(k, j) ==
    IF j = 0 THEN Constant(0)
    ELSE add_rv(SlotDamage(k, j - 1), SlotAttack(k, j).outcome_rv_dict[k[j]])

FirstNonMiss(k) ==
    IF \A i \in 1..Len(k) : k[i] = "MISS" THEN 0
    ELSE CHOOSE i \in 1..Len(k) : k[i] # "MISS" /\ \A j \in 1..(i - 1) : k[j] = "MISS"

FirstHitDist(outcome) ==
    IF has_damage(multi.first_hit_damage)
    THEN DamageSum_get_outcome_rv(multi.first_hit_damage, outcome)
    ELSE Constant(0)

WithFirstHit(k, damage) ==
    IF FirstNonMiss(k) = 0 THEN damage
    ELSE add_rv(damage, FirstHitDist(k[FirstNonMiss(k)]))

RECURSIVE SumBetween(_, _, _)
SumBetween(f, lo, hi) ==
    IF lo > hi THEN Zero
    ELSE IF lo = hi THEN f[lo]
    ELSE FAdd(SumBetween(f, lo, (lo + hi) \div 2), SumBetween(f, ((lo + hi) \div 2) + 1, hi))

CoeffSum(keep) ==
    SumBetween([i \in 1..Len(out.keys) |->
                   IF out.keys[i] \in keep THEN out.outcomes_coeffs[out.keys[i]] ELSE Zero],
               1, Len(out.keys))

(* C2: for n >= 1 attacks generate_outcomes_product_ yields 3^n distinct   *)
(* tuples of length n; the probability carried by a tuple, summed over the *)
(* cells it expands into, is the product of each attack's probability for  *)
(* its slot; and the probabilities of all cells sum to exactly 1.          *)
C2_JointOutcomes ==
    (Expanded /\ NumAttacks >= 1) =>
        /\ Len(out.all_outcomes) = Cardinality(HitOutcomes) ^ NumAttacks
        /\ Cardinality(BaseTuples) = Cardinality(HitOutcomes) ^ NumAttacks
        /\ \A t \in BaseTuples :
              /\ Len(t) = NumAttacks
              /\ \A j \in 1..Len(t) : t[j] \in HitOutcomes
              /\ CoeffSum({k \in CellKeys : BaseOf(k) = t}) = SlotChance(t, NumAttacks)
        /\ CoeffSum(CellKeys) = One

C2_Witness ==
    /\ Expanded
    /\ NumAttacks = MaxAttacks
    /\ multi.miss_atk # None
    /\ multi.crit_atk # None
    /\ Cardinality(CellKeys) > Cardinality(BaseTuples)
    /\ CoeffSum(CellKeys) = One

(* C3: with a miss-triggered attack and no crit-triggered attack, a base   *)
(* tuple holding a MISS expands into exactly one cell per outcome of the   *)
(* bonus attack, carrying that outcome's probability and damage once, and  *)
(* a base tuple holding no MISS stays one cell with no bonus damage.       *)
MissOnlyKeys(t) == IF HasMiss(t) THEN {Append(t, o) : o \in HitOutcomes} ELSE {t}

C3_MissBonusOncePerCell ==
    (Expanded /\ multi.miss_atk # None /\ multi.crit_atk = None) =>
        /\ CellKeys = UNION {MissOnlyKeys(t) : t \in BaseTuples}
        /\ \A t \in BaseTuples : \A k \in MissOnlyKeys(t) :
              IF HasMiss(t)
              THEN /\ out.outcomes_coeffs[k] =
                          FMul(SlotChance(t, NumAttacks),
                               multi.miss_atk.outcome_chance_dict[k[NumAttacks + 1]])
                   /\ out.outcomes_rvs[k] =
                          WithFirstHit(k,
                              add_rv(SlotDamage(t, NumAttacks),
                                     multi.miss_atk.outcome_rv_dict[k[NumAttacks + 1]]))
              ELSE /\ out.outcomes_coeffs[k] = SlotChance(t, NumAttacks)
                   /\ out.outcomes_rvs[k] = WithFirstHit(k, SlotDamage(t, NumAttacks))

C3_Witness ==
    /\ Expanded
    /\ multi.miss_atk # None
    /\ multi.crit_atk = None
    /\ NumAttacks = MaxAttacks
    /\ <<"MISS", "MISS", "HIT">> \in CellKeys
    /\ <<"HIT", "CRIT">> \in CellKeys
    /\ out.outcomes_rvs[<<"MISS", "MISS", "HIT">>].upper_bound
          = multi.miss_atk.outcome_rv_dict["HIT"].upper_bound
            + FirstHitDist("HIT").upper_bound

(* C4 as stated: with both triggered attacks set, each trigger looks at    *)
(* the base tuple only, so a cell has the miss-triggered attack's slot     *)
(* exactly when its base tuple holds a MISS and the crit-triggered         *)
(* attack's slot exactly when its base tuple holds a CRIT.                 *)
BaseOnlyKeys(t) ==
    {t \o (IF HasMiss(t) THEN <<m>> ELSE << >>) \o (IF HasCrit(t) THEN <<c>> ELSE << >>) :
        m \in HitOutcomes, c \in HitOutcomes}

ChainedKeys(t) ==
    IF HasMiss(t)
    THEN {Append(t, m) \o (IF HasCrit(t) \/ m = "CRIT" THEN <<c>> ELSE << >>) :
            m \in HitOutcomes, c \in HitOutcomes}
    ELSE IF HasCrit(t)
    THEN {Append(t, c) \o (IF c = "MISS" THEN <<m>> ELSE << >>) :
            m \in HitOutcomes, c \in HitOutcomes}
    ELSE {t}

C7_FirstHitByFirstNonMiss ==
    (Expanded /\ has_damage(multi.first_hit_damage)) =>
        \A k \in CellKeys :
            out.outcomes_rvs[k] =
                IF \A i \in 1..Len(k) : k[i] = "MISS" THEN SlotDamage(k, Len(k))
                ELSE IF k[FirstNonMiss(k)] = "HIT"
                THEN add_rv(SlotDamage(k, Len(k)),
                            DamageSum_get_outcome_rv(multi.first_hit_damage, "HIT"))
                ELSE add_rv(SlotDamage(k, Len(k)),
                            DamageSum_get_outcome_rv(multi.first_hit_damage, "CRIT"))

C7_Witness ==
    /\ Expanded
    /\ has_damage(multi.first_hit_damage)
    /\ NumAttacks = MaxAttacks
    /\ <<"MISS", "MISS">> \in CellKeys
    /\ out.outcomes_rvs[<<"MISS", "MISS">>] = Constant(0)
    /\ <<"HIT", "CRIT">> \in CellKeys
    /\ out.outcomes_rvs[<<"HIT", "CRIT">>] # SlotDamage(<<"HIT", "CRIT">>, MaxAttacks)
    /\ out.outcomes_rvs[<<"HIT", "CRIT">>] =
          add_rv(SlotDamage(<<"HIT", "CRIT">>, MaxAttacks),
                 DamageSum_get_outcome_rv(multi.first_hit_damage, "HIT"))

(* C5 as stated: the RandomVariable get_dmg_rv returns sums to exactly 1   *)
(* over [0, upper bound] for every configuration of n >= 1 attacks, and no *)
(* cell's damage exceeds the declared upper bound.                         *)
C5_PmfSumsToOne ==
    (out # None /\ "all_dmg_rv" \in DOMAIN out /\ NumAttacks >= 1) =>
        /\ out.all_dmg_rv.lower_bound = 0
        /\ TotalMass(out.all_dmg_rv) = One
        /\ Expanded =>
              \A k \in CellKeys :
                  out.outcomes_rvs[k].upper_bound <= out.all_dmg_rv.upper_bound

(* C6 as stated: in the combinatorial path pmf(0) is the                   *)
(* probability-weighted sum of each cell's cumulative probability at 0, so *)
(* a cell's mass below 0 is kept at 0.                                     *)
C6_NegativeMassFoldedIntoZero ==
    Expanded =>
        pdf(out.all_dmg_rv, 0) =
            SumBetween([i \in 1..Len(out.keys) |->
                           FMul(out.outcomes_coeffs[out.keys[i]],
                                cdf(out.outcomes_rvs[out.keys[i]], 0))],
                       1, Len(out.keys))

(***************************************************************************)
(* Finalizing an Attack: a caller builds one Attack, then calls add_damage *)
(* and finish_setup in any order.  args is the sequence of the calls made, *)
(* and out the exception the last call raised (None when it returned).     *)
(***************************************************************************)
MaxCalls == 4

SetupAttacks ==
    {Attack(Constant(5), 11, "NORMAL", 11, FALSE, FALSE),
     Attack(Constant(5), 14, "NORMAL", 11, FALSE, FALSE)}

SetupDamages ==
    {Damage(<<DicePart(1, 2)>>, FALSE),
     Damage(<<DicePart(1, 2), StaticPart(-2)>>, FALSE),
     Damage(<<DicePart(1, 2), StaticPart(-3)>>, TRUE)}

InitSetup ==
    /\ atk \in SetupAttacks
    /\ args = << >>
    /\ out = None
    /\ nops = 0
    /\ rv = None
    /\ multi = None

AttackAddDamage ==
    /\ Len(args) < MaxCalls
    /\ \E damage \in SetupDamages :
          /\ atk' = Attack_add_damage(atk, damage)
          /\ args' = Append(args, [call |-> "add_damage", damage |-> damage])
    /\ out' = None
    /\ UNCHANGED <<rv, nops, multi>>

AttackFinishSetup ==
    /\ Len(args) < MaxCalls
    /\ LET result == finish_setup(atk)
       IN  IF "raised" \in DOMAIN result
           THEN atk' = atk /\ out' = result
           ELSE atk' = result /\ out' = None
    /\ args' = Append(args, [call |-> "finish_setup"])
    /\ UNCHANGED <<rv, nops, multi>>

NextSetup == AttackAddDamage \/ AttackFinishSetup

SpecSetup == InitSetup /\ [][NextSetup]_vars

NegativeMass(r) ==
    summation(r.lower_bound, -1, [x \in r.lower_bound..(-1) |-> pdf(r, x)])

(* C11 as stated: for every finalized Attack the MISS damage is the        *)
(* constant 0, and the HIT and CRIT distributions get_outcome_rv returns   *)
(* have a lower bound of at least 0 and no probability below 0, also when  *)
(* the accumulated damage expression can be negative.                      *)
C11_OutcomeDamageNonNegative ==
    atk.is_setup_ =>
        /\ get_outcome_rv(atk, "MISS") = Constant(0)
        /\ \A o \in {"HIT", "CRIT"} :
              /\ get_outcome_rv(atk, o).lower_bound >= 0
              /\ NegativeMass(get_outcome_rv(atk, o)) = Zero

(***************************************************************************)
(* Accumulating damage in a DamageSum: out is the DamageSum and args the   *)
(* sequence of Damage objects handed to add_damage so far.                 *)
(***************************************************************************)
MaxDamages == 3

SumDamages ==
    {Damage(<<DicePart(1, 2)>>, FALSE),
     Damage(<<DicePart(1, 2), StaticPart(-2)>>, FALSE),
     Damage(<<DicePart(1, 2)>>, TRUE),
     Damage(<<DicePart(1, 1), StaticPart(6)>>, TRUE),
     Damage(<<DicePart(1, 2), StaticPart(-3)>>, TRUE)}

InitDamageSum ==
    /\ out = DamageSum
    /\ args = << >>
    /\ nops = 0
    /\ rv = None
    /\ atk = None
    /\ multi = None

DamageSumAddDamage ==
    /\ Len(args) < MaxDamages
    /\ \E damage \in SumDamages :
          /\ out' = DamageSum_add_damage(out, damage)
          /\ args' = Append(args, damage)
    /\ UNCHANGED <<rv, nops, atk, multi>>

NextDamageSum == DamageSumAddDamage

SpecDamageSum == InitDamageSum /\ [][NextDamageSum]_vars

(* The contributions of one kind in the order they were added: their base  *)
(* (HIT) or critical (CRIT) distributions.                                 *)
Contributions(resisted, o) ==
    LET idx == {i \in 1..Len(args) : args[i].resisted = resisted}
        nth[k \in 0..Cardinality(idx)] ==
            IF k = 0 THEN 0
            ELSE CHOOSE i \in idx : i > nth[k - 1] /\ \A j \in idx : j > nth[k - 1] => i <= j
    IN  [k \in 1..Cardinality(idx) |->
            IF o = "HIT" THEN args[nth[k]].damage_rv ELSE args[nth[k]].crit_rv]

RECURSIVE SumOf(_, _)
SumOf(rvs, n) == IF n = 1 THEN rvs[1] ELSE add_rv(SumOf(rvs, n - 1), rvs[n])

HalvedTotal(unresisted, resisted) ==
    IF Len(resisted) = 0 THEN SumOf(unresisted, Len(unresisted))
    ELSE IF Len(unresisted) = 0 THEN half_round_down(SumOf(resisted, Len(resisted)))
    ELSE add_rv(SumOf(unresisted, Len(unresisted)),
                half_round_down(SumOf(resisted, Len(resisted))))

\* C12: after any sequence of add_damage calls the HIT distribution of a
\* DamageSum is the sum of the unresisted hit contributions plus
\* half_round_down of the sum of the resisted hit contributions, halved once
\* on the total, and likewise for CRIT with the critical contributions; with
\* one kind only that side is used alone; MISS is the constant 0; a single
\* resisted constant 7 contributes exactly 3.
C12_HalvedOnceOnTotal ==
    Len(args) >= 1 =>
        /\ DamageSum_get_outcome_rv(out, "MISS") = Constant(0)
        /\ \A o \in {"HIT", "CRIT"} :
              DamageSum_get_outcome_rv(out, o) =
                  HalvedTotal(Contributions(FALSE, o), Contributions(TRUE, o))
        /\ args = <<Damage(<<DicePart(1, 1), StaticPart(6)>>, TRUE)>> =>
              DamageSum_get_outcome_rv(out, "HIT") = Constant(3)

(* Two resisted contributions and an unresisted one: halving each resisted *)
(* contribution would give 0..2 for the resisted part, halving the total   *)
(* gives 1..2.                                                             *)
C12_Witness ==
    /\ Len(args) = MaxDamages
    /\ Len(Contributions(TRUE, "HIT")) = 2
    /\ Len(Contributions(FALSE, "HIT")) = 1
    /\ Contributions(TRUE, "HIT")[1] = Dice(2)
    /\ Contributions(TRUE, "HIT")[2] = Dice(2)
    /\ Contributions(FALSE, "HIT")[1] = Dice(2)
    /\ DamageSum_get_outcome_rv(out, "HIT") =
          add_rv(Dice(2), half_round_down(add_rv(Dice(2), Dice(2))))
    /\ DamageSum_get_outcome_rv(out, "HIT") #
          add_rv(Dice(2), add_rv(half_round_down(Dice(2)), half_round_down(Dice(2))))

C12_WitnessSeven ==
    /\ args = <<Damage(<<DicePart(1, 1), StaticPart(6)>>, TRUE)>>
    /\ out.resisted_dmg_rv = Constant(7)
    /\ DamageSum_get_outcome_rv(out, "HIT") = Constant(3)

(* Halving an integer: toward minus infinity, and toward zero.             *)
FloorHalf(v) == IF v >= 0 THEN v \div 2 ELSE -((1 - v) \div 2)

(* h is the distribution of half[T] for T distributed as total.            *)
IsImage(h, total, half) ==
    /\ h.lower_bound = half[total.lower_bound]
    /\ h.upper_bound = half[total.upper_bound]
    /\ \A x \in (h.lower_bound - Margin)..(h.upper_bound + Margin) :
          pdf(h, x) =
              summation(total.lower_bound, total.upper_bound,
                        [v \in total.lower_bound..total.upper_bound |->
                            IF half[v] = x THEN pdf(total, v) ELSE Zero])

ResistedOnly == out.damage_rv = None /\ out.resisted_dmg_rv # None

ResistedTotal(o) == IF o = "HIT" THEN out.resisted_dmg_rv ELSE out.resisted_crit_dmg_rv

\* C13: the halving of a resisted damage total rounds toward minus infinity
\* for every integer total, negative ones included: the halved distribution
\* is the distribution of floor(total / 2), so -3 becomes -2 and -1 becomes -1.
C13_HalvingRoundsDown ==
    out.resisted_dmg_rv # None =>
        \A o \in {"HIT", "CRIT"} :
            /\ IsImage(half_round_down(ResistedTotal(o)), ResistedTotal(o),
                       [v \in ResistedTotal(o).lower_bound..ResistedTotal(o).upper_bound |->
                           FloorHalf(v)])
            /\ ResistedOnly =>
                  DamageSum_get_outcome_rv(out, o) = half_round_down(ResistedTotal(o))

(* A resisted total over -4..-2: the value -3 is halved to -2.             *)
C13_Witness ==
    /\ ResistedOnly
    /\ out.resisted_dmg_rv.lower_bound = -4
    /\ pdf(out.resisted_dmg_rv, -3) = Fraction(1, 2)
    /\ DamageSum_get_outcome_rv(out, "HIT").lower_bound = -2
    /\ pdf(DamageSum_get_outcome_rv(out, "HIT"), -2) = Fraction(3, 4)
    /\ pdf(DamageSum_get_outcome_rv(out, "HIT"), -1) = Fraction(1, 4)

(* C13 as stated: the halving of a resisted damage total rounds toward     *)
(* zero for every integer total, so -3 becomes -1 and -1 becomes 0.        *)
C13_HalvingRoundsTowardZero ==
    out.resisted_dmg_rv # None =>
        \A o \in {"HIT", "CRIT"} :
            IsImage(half_round_down(ResistedTotal(o)), ResistedTotal(o),
                    [v \in ResistedTotal(o).lower_bound..ResistedTotal(o).upper_bound |->
                        TruncHalf(v)])

(***************************************************************************)
(* Adding two random variables: args holds the two operands and out the    *)
(* RandomVariable add_rv returned for them.                                *)
(***************************************************************************)
SumOperands ==
    BaseRVs \cup {max_two_trials(r) : r \in BaseRVs} \cup {add_rv(r, r) : r \in BaseRVs}

InitSum ==
    /\ args \in SumOperands \X SumOperands
    /\ out = None
    /\ nops = 0
    /\ rv = None
    /\ atk = None
    /\ multi = None

AddOperands ==
    /\ out = None
    /\ out' = add_rv(args[1], args[2])
    /\ UNCHANGED <<rv, nops, args, atk, multi>>

NextSum == AddOperands

SpecSum == InitSum /\ [][NextSum]_vars

(* The probability that a draw of A and an independent draw of B add up to *)
(* x, by enumerating the pairs of values.                                  *)
PairSumChance(A, B, x) ==
    SumBetween([a \in A.lower_bound..A.upper_bound |->
                   SumBetween([b \in B.lower_bound..B.upper_bound |->
                                  IF a + b = x THEN FMul(A.pdf_[a], B.pdf_[b]) ELSE Zero],
                              B.lower_bound, B.upper_bound)],
               A.lower_bound, A.upper_bound)

\* C14: add_rv(A, B) has bounds [lbA + lbB, ubA + ubB] and its pdf at every x
\* is the sum over the value pairs (a, b) with a + b = x of pdfA(a) * pdfB(b),
\* for operands with different bounds, negative bounds and constants.
C14_AddRvIsConvolution ==
    out # None =>
        /\ out.lower_bound = args[1].lower_bound + args[2].lower_bound
        /\ out.upper_bound = args[1].upper_bound + args[2].upper_bound
        /\ \A x \in (out.lower_bound - Margin)..(out.upper_bound + Margin) :
              pdf(out, x) = PairSumChance(args[1], args[2], x)

C14_Witness ==
    /\ out # None
    /\ args = <<Dice(MaxDie), Uniform(-MaxVal, 0)>>
    /\ out.lower_bound = 1 - MaxVal
    /\ out.upper_bound = MaxDie
    /\ pdf(out, out.lower_bound) = Fraction(1, MaxDie * (MaxVal + 1))

\* C15: expected_value(add_rv(A, B)) = expected_value(A) + expected_value(B),
\* exactly, as fractions.
C15_ExpectedValueAdditive ==
    out # None =>
        expected_value(out) = FAdd(expected_value(args[1]), expected_value(args[2]))

C15_Witness ==
    /\ out # None
    /\ args = <<DiceReroll(2, 1), Constant(-1)>>
    /\ expected_value(args[1]) = Fraction(7, 4)
    /\ expected_value(out) = Fraction(3, 4)

(***************************************************************************)
(* Memoizing.  Before memoize a RandomVariable's pdf_ is the closure its   *)
(* constructor or the operation that built it installed; the closure       *)
(* answers for every integer, tabulated here over a window of Margin       *)
(* values around the bounds.  After memoize pdf_ looks the value up in a   *)
(* dict over the bounds.  rv is the object, args the object as it was      *)
(* before the last memoize call.                                           *)
(***************************************************************************)
MaxMemo == 2

Window(lb, ub) == (lb - Margin)..(ub + Margin)

DiceClosure(die_size) ==
    [RandomVariable(1, die_size) EXCEPT
        !.pdf_ = [x \in Window(1, die_size) |-> Fraction(1, die_size)]]

DiceRerollClosure(die_size, reroll_max) ==
    [RandomVariable(1, die_size) EXCEPT
        !.pdf_ = [x \in Window(1, die_size) |->
                     IF x > reroll_max
                     THEN FAdd(Fraction(1, die_size),
                               FMul(Fraction(reroll_max, die_size), Fraction(1, die_size)))
                     ELSE FMul(Fraction(reroll_max, die_size), Fraction(1, die_size))]]

ConstantClosure(value) ==
    [RandomVariable(value, value) EXCEPT !.pdf_ = [x \in Window(value, value) |-> One]]

UniformClosure(lb, ub) ==
    [RandomVariable(lb, ub) EXCEPT
        !.pdf_ = [x \in Window(lb, ub) |-> Fraction(1, ub - lb + 1)]]

add_rv_closure(self, other) ==
    LET lb == self.lower_bound + other.lower_bound
        ub == self.upper_bound + other.upper_bound
        true_lb == Min(self.lower_bound, other.lower_bound)
        true_ub == Max(self.upper_bound, other.upper_bound)
    IN  [RandomVariable(lb, ub) EXCEPT
            !.pdf_ = [x \in Window(lb, ub) |-> convolution(self, other, true_lb, true_ub, x)]]

max_two_trials_closure(self) ==
    [RandomVariable(self.lower_bound, self.upper_bound) EXCEPT
        !.pdf_ = [x \in Window(self.lower_bound, self.upper_bound) |-> maxPdf(self, x)]]

half_round_down_closure(self) ==
    LET lb == self.lower_bound \div 2
        ub == self.upper_bound \div 2
    IN  [RandomVariable(lb, ub) EXCEPT
            !.pdf_ = [x \in Window(lb, ub) |->
                         FAdd(pdf(self, 2 * x), pdf(self, 2 * x + 1))]]

ConstructorClosures ==
    {DiceClosure(n) : n \in 1..MaxDie}
    \cup {DiceRerollClosure(p[1], p[2]) :
             p \in {q \in (1..MaxDie) \X (0..MaxDie) : q[2] <= q[1]}}
    \cup {ConstantClosure(v) : v \in (-MaxVal)..MaxVal}
    \cup {UniformClosure(p[1], p[2]) :
             p \in {q \in ((-MaxVal)..MaxVal) \X ((-MaxVal)..MaxVal) : q[1] <= q[2]}}

Closures ==
    ConstructorClosures
    \cup {add_rv_closure(p[1], p[2]) : p \in ConstructorClosures \X ConstructorClosures}
    \cup {max_two_trials_closure(r) : r \in ConstructorClosures}
    \cup {half_round_down_closure(r) : r \in ConstructorClosures}

InitMemo ==
    /\ rv \in Closures
    /\ args = None
    /\ nops = 0
    /\ atk = None
    /\ multi = None
    /\ out = None

MemoizeClosure ==
    /\ nops < MaxMemo
    /\ args' = rv
    /\ rv' = memoize(rv)
    /\ nops' = nops + 1
    /\ UNCHANGED <<atk, multi, out>>

NextMemo == MemoizeClosure

SpecMemo == InitMemo /\ [][NextMemo]_vars

\* C16: memoize is a pure optimisation and idempotent: pdf and cdf at every x
\* inside and outside the bounds, expected_value and variance are the same
\* before and after memoizing, the bounds are unchanged, and a second memoize
\* changes nothing.
C16_MemoizeTransparent ==
    nops >= 1 =>
        /\ rv.lower_bound = args.lower_bound
        /\ rv.upper_bound = args.upper_bound
        /\ \A x \in Window(rv.lower_bound, rv.upper_bound) :
              /\ pdf(rv, x) = pdf(args, x)
              /\ cdf(rv, x) = cdf(args, x)
        /\ expected_value(rv) = expected_value(args)
        /\ variance(rv) = variance(args)
        /\ nops >= 2 => rv = args

(* A die memoized twice: the closure answered 1/MaxDie outside the bounds  *)
(* too, the dict holds the values inside the bounds only.                  *)
C16_Witness ==
    /\ nops = 2
    /\ args = Dice(MaxDie)
    /\ rv = memoize(DiceClosure(MaxDie))
    /\ DiceClosure(MaxDie).pdf_[MaxDie + 1] = Fraction(1, MaxDie)
    /\ pdf(rv, MaxDie + 1) = Zero
    /\ DOMAIN rv.pdf_ = 1..MaxDie

(***************************************************************************)
(* Best and worst of repeated draws: rv is the roll and out the            *)
(* RandomVariable max_two_trials, min_two_trials or max_three_trials       *)
(* returned for it, with the name of the operation.                        *)
(***************************************************************************)
TrialOperands ==
    SumOperands
    \cup {add_rv(p[1], p[2]) : p \in BaseRVs \X BaseRVs}
    \cup {Dice(D20)}

InitTrials ==
    /\ rv \in {r \in TrialOperands : CommonDen(r) <= MaxDen}
    /\ out = None
    /\ nops = 0
    /\ args = None
    /\ atk = None
    /\ multi = None

TrialsCall(op, result) ==
    /\ out = None
    /\ out' = [op |-> op, rv |-> result]
    /\ UNCHANGED <<rv, nops, args, atk, multi>>

BestOfTwo == TrialsCall("max_two_trials", max_two_trials(rv))
WorstOfTwo == TrialsCall("min_two_trials", min_two_trials(rv))
BestOfThree == TrialsCall("max_three_trials", max_three_trials(rv))

NextTrials ==
    \/ BestOfTwo
    \/ WorstOfTwo
    \/ BestOfThree

SpecTrials == InitTrials /\ [][NextTrials]_vars

(* The chance that the pick (a function of the drawn tuple) of independent *)
(* draws of X equals x, by enumerating the tuples of values.               *)
PairChance(X, pick, x) ==
    SumBetween([a \in X.lower_bound..X.upper_bound |->
                   SumBetween([b \in X.lower_bound..X.upper_bound |->
                                  IF pick[<<a, b>>] = x
                                  THEN FMul(X.pdf_[a], X.pdf_[b]) ELSE Zero],
                              X.lower_bound, X.upper_bound)],
               X.lower_bound, X.upper_bound)

TripleMaxChance(X, x) ==
    SumBetween([a \in X.lower_bound..X.upper_bound |->
                   SumBetween([b \in X.lower_bound..X.upper_bound |->
                                  SumBetween([c \in X.lower_bound..X.upper_bound |->
                                                 IF Max(a, Max(b, c)) = x
                                                 THEN FMul(X.pdf_[a], FMul(X.pdf_[b], X.pdf_[c]))
                                                 ELSE Zero],
                                             X.lower_bound, X.upper_bound)],
                              X.lower_bound, X.upper_bound)],
               X.lower_bound, X.upper_bound)

DrawnChance(X, op, x) ==
    LET values == X.lower_bound..X.upper_bound
    IN  IF op = "max_two_trials"
        THEN PairChance(X, [p \in values \X values |-> Max(p[1], p[2])], x)
        ELSE IF op = "min_two_trials"
        THEN PairChance(X, [p \in values \X values |-> Min(p[1], p[2])], x)
        ELSE TripleMaxChance(X, x)

\* C17: for an X whose pdf sums to 1, max_two_trials(X), min_two_trials(X) and
\* max_three_trials(X) are the distributions of the maximum of two, the
\* minimum of two and the maximum of three independent draws of X, as found
\* by enumerating the draw tuples; for a fair d20 max_two_trials has
\* pdf(20) = 39/400.
C17_TrialsMatchEnumeration ==
    out # None =>
        /\ out.rv.lower_bound = rv.lower_bound
        /\ out.rv.upper_bound = rv.upper_bound
        /\ \A x \in rv.lower_bound..rv.upper_bound :
              pdf(out.rv, x) = DrawnChance(rv, out.op, x)
        /\ \A k \in 1..Margin :
              /\ pdf(out.rv, rv.lower_bound - k) = Zero
              /\ pdf(out.rv, rv.upper_bound + k) = Zero
        /\ (rv = Dice(D20) /\ out.op = "max_two_trials") =>
              pdf(out.rv, D20) = Fraction(39, 400)

C17_Witness ==
    /\ out # None
    /\ rv = Dice(D20)
    /\ out.op = "max_two_trials"
    /\ pdf(out.rv, D20) = Fraction(39, 400)
    /\ pdf(out.rv, 1) = Fraction(1, 400)

C17_WitnessThree ==
    /\ out # None
    /\ rv = Dice(D20)
    /\ out.op = "max_three_trials"
    /\ pdf(out.rv, D20) = Fraction(1141, 8000)

\* C18: for a RandomVariable whose pdf sums to 1 the cdf is non-decreasing,
\* cdf(lower_bound - 1) = 0, cdf(upper_bound) = 1 and cdf(x) = 1 for every
\* x above the upper bound.  Stated over every RandomVariable SpecRV builds.
C18_CdfMonotoneToOne ==
    /\ cdf(rv, rv.lower_bound - 1) = Zero
    /\ cdf(rv, rv.upper_bound) = One
    /\ \A x \in (rv.lower_bound - Margin)..(rv.upper_bound + Margin) :
          /\ FSub(cdf(rv, x), cdf(rv, x - 1))[1] >= 0
          /\ x < rv.lower_bound => cdf(rv, x) = Zero
          /\ x > rv.upper_bound => cdf(rv, x) = One

(* A halved sum: the cdf climbs in steps strictly between 0 and 1.         *)
C18_Witness ==
    /\ nops = 2
    /\ rv = half_round_down(add_rv(Dice(2), Dice(2)))
    /\ cdf(rv, 1) = Fraction(3, 4)
    /\ cdf(rv, 2) = One
    /\ cdf(rv, 2 + Margin) = One
    /\ cdf(rv, 0) = Zero

NoDamageAdded == \A i \in 1..Len(args) : args[i].call # "add_damage"

LastCall == args[Len(args)].call

\* C19: finish_setup fails with an error when no damage was added to the
\* Attack; the failed call leaves the Attack unfinalized and without an
\* outcome-damage mapping, and a later finish_setup after add_damage succeeds.
C19_FinishSetupNeedsDamage ==
    /\ ~atk.is_setup_ => atk.outcome_rv_dict = None
    /\ (Len(args) >= 1 /\ LastCall = "finish_setup") =>
          IF NoDamageAdded
          THEN /\ out = RuntimeError("damage/resisted dmg RV is not set")
               /\ ~atk.is_setup_
               /\ atk.outcome_rv_dict = None
               /\ atk.damage_rv = None /\ atk.resisted_dmg_rv = None
          ELSE /\ out = None
               /\ atk.is_setup_
               /\ \A o \in HitOutcomes : get_outcome_rv(atk, o) # None

(* A failed finish_setup, then add_damage, then a finish_setup that        *)
(* succeeds.                                                               *)
C19_Witness ==
    /\ Len(args) = 3
    /\ args[1].call = "finish_setup"
    /\ args[2].call = "add_damage"
    /\ args[3].call = "finish_setup"
    /\ out = None
    /\ atk.is_setup_
    /\ get_outcome_rv(atk, "HIT") =
          merge_resisted(atk.damage_rv, atk.resisted_dmg_rv)

\* C20: finalization is idempotent: the outcome-damage mapping is computed
\* only by the first successful finish_setup, and every later call, also a
\* finish_setup that follows further add_damage calls, leaves the outcome
\* probabilities and the per-outcome damage distributions unchanged.
C20_FinalizedOnce ==
    [][/\ atk.is_setup_ =>
            /\ atk'.is_setup_
            /\ atk'.outcome_rv_dict = atk.outcome_rv_dict
            /\ atk'.outcome_chance_dict = atk.outcome_chance_dict
       /\ atk'.outcome_rv_dict # atk.outcome_rv_dict =>
            /\ ~atk.is_setup_
            /\ atk'.is_setup_
            /\ args'[Len(args')].call = "finish_setup"]_vars

(* add_damage, finish_setup, add_damage again and a second finish_setup:   *)
(* the mapping still holds the first damage alone.                         *)
C20_Witness ==
    /\ Len(args) = 4
    /\ args[1].call = "add_damage"
    /\ args[2].call = "finish_setup"
    /\ args[3].call = "add_damage"
    /\ args[4].call = "finish_setup"
    /\ ~args[1].damage.resisted
    /\ ~args[3].damage.resisted
    /\ atk.is_setup_
    /\ get_outcome_rv(atk, "HIT") = args[1].damage.damage_rv
    /\ atk.damage_rv = add_rv(args[1].damage.damage_rv, args[3].damage.damage_rv)
    /\ get_outcome_rv(atk, "HIT") # atk.damage_rv

(***************************************************************************)
(* Copying a MultiAttack.  OutcomeRV.copy builds a new OutcomeRV from the  *)
(* two dicts and the caps; an Attack's copy keeps the Attack's own fields  *)
(* beside them.  DamageSum defines no copy method, so looking it up on the *)
(* first-hit DamageSum raises AttributeError.                              *)
(***************************************************************************)
OutcomeRV_copy(self) ==
    [outcome_chance_dict |-> self.outcome_chance_dict,
     outcome_rv_dict |-> [o \in DOMAIN self.outcome_rv_dict |-> copy(self.outcome_rv_dict[o])],
     condense_outliers |-> self.condense_outliers,
     cap_lb |-> self.cap_lb,
     cap_ub |-> self.cap_ub]

DamageSum_copy(self) == AttributeError("'DamageSum' object has no attribute 'copy'")

RECURSIVE copy_attacks_(_, _)
copy_attacks_(self, n) ==
    IF n = 0 THEN MultiAttack
    ELSE add_attack(copy_attacks_(self, n - 1),
                    OutcomeRV_copy(self.attacks[n]) @@ self.attacks[n])

copy_miss_atk_(self, multi_) ==
    IF self.miss_atk # None
    THEN add_miss_extra_attack(multi_, OutcomeRV_copy(self.miss_atk) @@ self.miss_atk)
    ELSE multi_

MultiAttack_copy(self) ==
    LET first_hit_damage == DamageSum_copy(self.first_hit_damage)
    IN  IF "raised" \in DOMAIN first_hit_damage THEN first_hit_damage
        ELSE [copy_miss_atk_(self, [copy_attacks_(self, Len(self.attacks)) EXCEPT
                                       !.first_hit_damage = first_hit_damage])
                 EXCEPT !.debug = self.debug]

(* A MultiAttack is configured a call at a time as in SpecMulti, then      *)
(* copied: out is what copy() returned or raised.                          *)
CopyMulti ==
    /\ out = None
    /\ out' = MultiAttack_copy(multi)
    /\ UNCHANGED <<rv, nops, args, atk, multi>>

NextCopy ==
    \/ AddAttack
    \/ AddMissExtraAttack
    \/ AddCritExtraAttack
    \/ AddFirstHitDamage
    \/ CopyMulti

SpecCopy == InitMulti /\ [][NextCopy]_vars

(* C21 as stated: MultiAttack.copy() returns an independent MultiAttack    *)
(* whose get_dmg_rv distribution equals the original's for every           *)
(* configuration of the original (attacks, first-hit damage, miss- and     *)
(* crit-triggered bonus attack).                                           *)
C21_CopyHasSameDistribution ==
    out # None =>
        /\ "raised" \notin DOMAIN out
        /\ "raised" \notin DOMAIN get_dmg_rv(multi) =>
              get_dmg_rv(out).all_dmg_rv = get_dmg_rv(multi).all_dmg_rv

(***************************************************************************)
(* Building a Damage from an expression: args is the expression, the       *)
(* sequence of its '+'-separated terms, and out the Damage built from it   *)
(* or the exception raised.                                                *)
(***************************************************************************)
MaxTerms == 2

DamageTerms ==
    {DicePart(1, 2), DicePart(2, 2), DicePart(1, 3), RerollPart(1, 2, 1),
     StaticPart(1), StaticPart(-2),
     [num |-> 1, reroll |-> <<2>>]}

DamageExprs ==
    UNION {[1..n -> DamageTerms] : n \in 1..MaxTerms}

InitDamage ==
    /\ args \in DamageExprs
    /\ out = None
    /\ nops = 0
    /\ rv = None
    /\ atk = None
    /\ multi = None

BuildDamage ==
    /\ out = None
    /\ out' = Damage(args, FALSE)
    /\ UNCHANGED <<rv, nops, args, atk, multi>>

NextDamage == BuildDamage

SpecDamage == InitDamage /\ [][NextDamage]_vars

(* The terms of the expression read one by one: the distribution of a dice *)
(* term, and the sum of the dice terms and of the bare integers.           *)
TermRV(term) ==
    IF IsStaticPart(term) THEN Constant(term.static)
    ELSE add_rv(IF term.reroll = None THEN Dice(term.size)
                ELSE DiceReroll(term.size, term.reroll[1]),
                IF term.num = 1 THEN Constant(0)
                ELSE IF term.reroll = None THEN Dice(term.size)
                ELSE DiceReroll(term.size, term.reroll[1]))

WellFormed == \A i \in 1..Len(args) : IsDicePart(args[i]) \/ IsStaticPart(args[i])

HasDice == \E i \in 1..Len(args) : IsDicePart(args[i])

RECURSIVE TermsSum(_, _)
TermsSum(keep, n) ==
    IF n = 0 THEN Constant(0)
    ELSE IF keep[n] THEN add_rv(TermsSum(keep, n - 1), TermRV(args[n]))
    ELSE TermsSum(keep, n - 1)

DiceSum == TermsSum([i \in 1..Len(args) |-> IsDicePart(args[i])], Len(args))

StaticSum == TermsSum([i \in 1..Len(args) |-> IsStaticPart(args[i])], Len(args))

(* C22 as stated: a Damage built from dice terms D and static modifiers s  *)
(* has base distribution D + s and critical distribution D + D' + s with   *)
(* D' an independent second roll of the same dice: the critical upper      *)
(* bound is 2 * ub(D) + s and the static modifiers are counted once.       *)
C22_CritDoublesDiceOnly ==
    (out # None /\ WellFormed /\ HasDice) =>
        /\ "raised" \notin DOMAIN out
        /\ out.damage_rv = add_rv(DiceSum, StaticSum)
        /\ out.crit_rv = add_rv(add_rv(DiceSum, DiceSum), StaticSum)
        /\ out.crit_rv.upper_bound = 2 * DiceSum.upper_bound + StaticSum.upper_bound

(* C28 as stated: a damage expression 't1 + t2 + ... + tk' yields the      *)
(* distribution of the sum of all k terms, each dice term contributing     *)
(* independently, also when two terms are textually identical ('1d6 + 1d6' *)
(* equals '2d6'), and all bare integers summed once; a term containing 'r' *)
(* but no 'd' is rejected with an error.                                   *)
C28_ExpressionIsSumOfTerms ==
    out # None =>
        IF WellFormed
        THEN /\ "raised" \notin DOMAIN out
             /\ out.damage_rv = TermsSum([i \in 1..Len(args) |-> TRUE], Len(args))
             /\ (Len(args) = 2 /\ args[1] = args[2] /\ IsDicePart(args[1]) /\ args[1].num = 1) =>
                   out.damage_rv =
                       Damage(<<[args[1] EXCEPT !.num = 2]>>, FALSE).damage_rv
        ELSE out = RuntimeError("Can't have 'r' without 'd'")

(***************************************************************************)
(* Enemy.py: set_ac, apply_hit_type.  An Enemy is constructed and then     *)
(* receives set_ac and apply_hit_type calls: atk is the Enemy (None until  *)
(* a constructor call returns), args the last call with the object as it   *)
(* was before the call, out the exception the last call raised.            *)
(***************************************************************************)
set_ac_lenient(self, ac) ==
    IF ac.type = "int" THEN [self EXCEPT !.ac = Constant(ac.v)]
    ELSE IF ac.type = "RandomVariable" THEN [self EXCEPT !.ac = ac.v]
    ELSE self

set_ac(self, ac) ==
    IF ac.type = "int" THEN [self EXCEPT !.ac = Constant(ac.v)]
    ELSE IF ac.type = "RandomVariable" THEN [self EXCEPT !.ac = ac.v]
    ELSE RuntimeError("ac should be an int or an RV")

apply_hit_type(self, new_hit_type) ==
    IF self.hit_type = "NORMAL" THEN [self EXCEPT !.hit_type = new_hit_type]
    ELSE IF new_hit_type = "NORMAL" THEN self
    ELSE IF "new_hit_type" \notin DOMAIN self
    THEN AttributeError("'Enemy' object has no attribute 'new_hit_type'")
    ELSE IF self.hit_type = self.new_hit_type THEN self
    ELSE [self EXCEPT !.hit_type = "NORMAL"]

MaxEnemyCalls == 2

PyACs ==
    <<PyInt(10), PyInt(15), PyRV(Uniform(10, 13)), PyStr("15"),
      [type |-> "NoneType", v |-> None]>>

InitEnemy ==
    /\ atk = None
    /\ args = None
    /\ out = None
    /\ nops = 0
    /\ rv = None
    /\ multi = None

EnemyCall(call, result) ==
    /\ args' = call
    /\ IF "raised" \in DOMAIN result
       THEN atk' = atk /\ out' = result
       ELSE atk' = result /\ out' = None
    /\ UNCHANGED <<rv, multi>>

NewEnemy ==
    /\ atk = None
    /\ args = None
    /\ \E i \in DOMAIN PyACs, hit_type \in HitType, auto_crit \in BOOLEAN :
          EnemyCall([call |-> "Enemy", ac |-> PyACs[i], before |-> None],
                    Enemy(PyACs[i], hit_type, auto_crit))
    /\ UNCHANGED nops

SetAc ==
    /\ atk # None
    /\ nops < MaxEnemyCalls
    /\ nops' = nops + 1
    /\ \E i \in DOMAIN PyACs :
          EnemyCall([call |-> "set_ac", ac |-> PyACs[i], before |-> atk],
                    set_ac(atk, PyACs[i]))

ApplyHitType ==
    /\ atk # None
    /\ nops < MaxEnemyCalls
    /\ nops' = nops + 1
    /\ \E new_hit_type \in HitType :
          EnemyCall([call |-> "apply_hit_type", new_hit_type |-> new_hit_type,
                     before |-> atk],
                    apply_hit_type(atk, new_hit_type))

NextEnemy ==
    \/ NewEnemy
    \/ SetAc
    \/ ApplyHitType

SpecEnemy == InitEnemy /\ [][NextEnemy]_vars

StoredAc(ac) == IF ac.type = "int" THEN Constant(ac.v) ELSE ac.v

\* C23: constructing an Enemy or calling set_ac with an armor class that is
\* neither an integer nor a RandomVariable fails with an error; a failed
\* set_ac leaves the enemy's armor class, hit type and auto-crit flag
\* unchanged; an integer armor class is stored as the constant distribution
\* of that value.
C23_ArmorClassIsIntOrRV ==
    (args # None /\ args.call \in {"Enemy", "set_ac"}) =>
        IF args.ac.type \in {"int", "RandomVariable"}
        THEN /\ out = None
             /\ atk.ac = StoredAc(args.ac)
             /\ args.call = "set_ac" =>
                   /\ atk.hit_type = args.before.hit_type
                   /\ atk.auto_crit = args.before.auto_crit
        ELSE /\ out = RuntimeError("ac should be an int or an RV")
             /\ atk = args.before

(* An Enemy built with armor class 15, stored as Constant(15), keeps it    *)
(* through a set_ac call that was given the string "15".                   *)
C23_Witness ==
    /\ args # None
    /\ args.call = "set_ac"
    /\ args.ac.type = "str"
    /\ out = RuntimeError("ac should be an int or an RV")
    /\ atk.ac = Constant(15)
    /\ atk.hit_type = "ADVANTAGE"
    /\ atk.auto_crit

CombinedHitType(current, new_hit_type) ==
    IF current = "NORMAL" THEN new_hit_type
    ELSE IF new_hit_type = "NORMAL" \/ new_hit_type = current THEN current
    ELSE "NORMAL"

(* C30 as stated: apply_hit_type never fails and combines the hit types    *)
(* for every pair of current and new HitType: a current NORMAL takes the   *)
(* new type; a new type that is NORMAL or equal to the current one keeps   *)
(* the current type; two different non-NORMAL types give NORMAL; armor     *)
(* class and auto-crit flag are unchanged.                                 *)
C30_ApplyHitTypeCombines ==
    (args # None /\ args.call = "apply_hit_type") =>
        /\ out = None
        /\ atk.hit_type = CombinedHitType(args.before.hit_type, args.new_hit_type)
        /\ atk.ac = args.before.ac
        /\ atk.auto_crit = args.before.auto_crit

(* The marginal damage of one attack, clamped at 0, from its outcome       *)
(* chances and per-outcome distributions.                                  *)
ClampedChance(attack, x) ==
    SumBetween([i \in 1..3 |->
                   FMul(get_outcome_chance(attack, HitOutcome[i]),
                        IF x < 0 THEN Zero
                        ELSE IF x = 0 THEN cdf(get_outcome_rv(attack, HitOutcome[i]), 0)
                        ELSE pdf(get_outcome_rv(attack, HitOutcome[i]), x))],
               1, 3)

ClampedMarginal(attack) ==
    LET ub == Max(get_outcome_rv(attack, "MISS").upper_bound,
                  Max(get_outcome_rv(attack, "HIT").upper_bound,
                      get_outcome_rv(attack, "CRIT").upper_bound))
    IN  set_pdf(RandomVariable(0, ub), [x \in 0..ub |-> ClampedChance(attack, x)])

RECURSIVE MarginalsSum(_)
MarginalsSum(n) ==
    IF n = 0 THEN Constant(0)
    ELSE add_rv(MarginalsSum(n - 1), ClampedMarginal(multi.attacks[n]))

RECURSIVE Pow3(_)
Pow3(n) == IF n = 0 THEN 1 ELSE 3 * Pow3(n - 1)

(* The k-th of the 3^n outcome tuples of the n attacks, its probability    *)
(* and the sum of its per-outcome damage distributions.                    *)
TupleAt(k) == [i \in 1..Len(multi.attacks) |-> HitOutcome[((k \div Pow3(i - 1)) % 3) + 1]]

RECURSIVE TupleChance(_, _)
TupleChance(t, n) ==
    IF n = 0 THEN One
    ELSE FMul(TupleChance(t, n - 1), get_outcome_chance(multi.attacks[n], t[n]))

RECURSIVE TupleDamage(_, _)
TupleDamage(t, n) ==
    IF n = 0 THEN Constant(0)
    ELSE add_rv(TupleDamage(t, n - 1), get_outcome_rv(multi.attacks[n], t[n]))

EnumeratedChance(x) ==
    SumBetween([k \in 0..(Pow3(Len(multi.attacks)) - 1) |->
                   FMul(TupleChance(TupleAt(k), Len(multi.attacks)),
                        pdf(TupleDamage(TupleAt(k), Len(multi.attacks)), x))],
               0, Pow3(Len(multi.attacks)) - 1)

NeverNegative ==
    \A i \in 1..Len(multi.attacks) : \A o \in HitOutcomes :
        get_outcome_rv(multi.attacks[i], o).lower_bound >= 0

FastPath == out # None /\ "path" \in DOMAIN out /\ out.path = "marginals"

\* C24: with no first-hit damage and no triggered bonus attack get_dmg_rv
\* returns the convolution of the attacks' marginal damage distributions
\* (clamped at 0), and for attacks whose damage is never negative this is the
\* PMF of the full enumeration over all 3^n outcome tuples: the
\* probability-weighted sum of the convolved per-outcome distributions.
C24_FastPathIsEnumeration ==
    /\ (out # None /\ "path" \in DOMAIN out) =>
          (out.path = "marginals" <=>
              ~(has_damage(multi.first_hit_damage) \/ has_bonus_atk(multi)))
    /\ FastPath =>
          /\ out.all_dmg_rv = MarginalsSum(Len(multi.attacks))
          /\ NeverNegative =>
                \A x \in (-Margin)..(out.all_dmg_rv.upper_bound + Margin) :
                    pdf(out.all_dmg_rv, x) = EnumeratedChance(x)

(* MaxAttacks attacks of 1d2 damage, hit on 1/4, critical on 1/2: the      *)
(* round deals no damage only when every attack misses.                    *)
C24_Witness ==
    /\ FastPath
    /\ Len(multi.attacks) = MaxAttacks
    /\ \A i \in 1..MaxAttacks : multi.attacks[i] = finish_setup(PlainAttack)
    /\ NeverNegative
    /\ out.all_dmg_rv.upper_bound = 4 * MaxAttacks
    /\ pdf(out.all_dmg_rv, 0) = TupleChance([i \in 1..MaxAttacks |-> "MISS"], MaxAttacks)
    /\ pdf(out.all_dmg_rv, 0) # Zero

\* C25: half_round_down(X) has bounds [floor(lb/2), floor(ub/2)] and pdf
\* p_half(x) = p(2x) + p(2x+1), which is the distribution of floor(X/2), and
\* it keeps the total probability mass, for odd and even, negative and
\* positive bounds.  Stated over every step of SpecRV that halves rv.
C25_HalfIsFloorImage ==
    [][(nops' = nops + 1 /\ rv' = half_round_down(rv)) =>
          /\ rv'.lower_bound = FloorHalf(rv.lower_bound)
          /\ rv'.upper_bound = FloorHalf(rv.upper_bound)
          /\ \A x \in (rv'.lower_bound)..(rv'.upper_bound) :
                pdf(rv', x) = FAdd(pdf(rv, 2 * x), pdf(rv, 2 * x + 1))
          /\ IsImage(rv', rv, [v \in rv.lower_bound..rv.upper_bound |-> FloorHalf(v)])
          /\ TotalMass(rv') = TotalMass(rv)]_vars

(* The sum of Uniform(-1, 1) and Constant(-1), over -2..0, halved: -2 and  *)
(* -1 both become -1.                                                      *)
C25_Witness ==
    /\ nops = 2
    /\ rv = half_round_down(add_rv(Uniform(-1, 1), Constant(-1)))
    /\ rv.lower_bound = -1
    /\ rv.upper_bound = 0
    /\ pdf(rv, -1) = Fraction(2, 3)

(***************************************************************************)
(* The lower cap of an OutcomeRV, on the Attacks of SpecSetup (cap 0).     *)
(***************************************************************************)
ChanceSum(self) ==
    FAdd(FAdd(get_outcome_chance(self, "MISS"), get_outcome_chance(self, "HIT")),
         get_outcome_chance(self, "CRIT"))

LowestOutcome(self) ==
    Min(get_outcome_rv(self, "MISS").lower_bound,
        Min(get_outcome_rv(self, "HIT").lower_bound,
            get_outcome_rv(self, "CRIT").lower_bound))

\* C26: with the lower cap 0 an Attack sets, the marginal pdf of a finalized
\* Attack is 0 below the cap, at the cap the sum over the outcomes of
\* chance(o) * cdf_o(cap), and elsewhere the sum of chance(o) * pdf_o(x); the
\* RandomVariable get_rv returns has the cap as its lower bound and sums to
\* exactly 1 when the outcome chances sum to 1.
C26_LowerCapFoldsMass ==
    (atk.is_setup_ /\ atk.cap_lb # None /\ atk.cap_ub = None) =>
        LET cap == atk.cap_lb[1]
            marginal == get_rv(atk)
        IN  /\ \A x \in (LowestOutcome(atk) - Margin)..(cap - 1) :
                  OutcomeRV_pdf(atk, x) = Zero
            /\ OutcomeRV_pdf(atk, cap) =
                  outcome_pdf_(atk, [o \in HitOutcomes |-> cdf(get_outcome_rv(atk, o), cap)])
            /\ \A x \in (cap + 1)..(marginal.upper_bound + Margin) :
                  OutcomeRV_pdf(atk, x) =
                      outcome_pdf_(atk, [o \in HitOutcomes |-> pdf(get_outcome_rv(atk, o), x)])
            /\ marginal.lower_bound = cap
            /\ \A x \in cap..marginal.upper_bound :
                  pdf(marginal, x) = ClampedChance(atk, x)
            /\ ChanceSum(atk) = One => TotalMass(marginal) = One

\* A finalized Attack whose HIT damage 1d2 - 2 is negative with probability
\* 1/2: the mass below 0 is carried by pdf(0).
C26_Witness ==
    /\ atk.is_setup_
    /\ atk.cap_lb = <<0>>
    /\ ChanceSum(atk) = One
    /\ get_outcome_rv(atk, "HIT").lower_bound = -1
    /\ pdf(get_outcome_rv(atk, "HIT"), -1) = Fraction(1, 2)
    /\ get_rv(atk).lower_bound = 0

(***************************************************************************)
(* The upper cap.  OutcomeRV.py and Outcomes.py: set_cap_ub, and the pdf   *)
(* of Outcomes, which looks at cap_ub only when cap_lb is not set.  A      *)
(* caller builds an Attack as in SpecSetup and may set an upper cap on it. *)
(***************************************************************************)
set_cap_ub(self, ub) == [self EXCEPT !.cap_ub = <<ub>>]

Outcomes_pdf(self, x) ==
    LET lb_set == self.cap_lb # None
        ub_set == ~lb_set /\ self.cap_ub # None
        f == IF lb_set /\ x = self.cap_lb[1]
             THEN [o \in HitOutcomes |-> cdf(get_outcome_rv(self, o), x)]
             ELSE IF ub_set /\ x = self.cap_ub[1]
             THEN [o \in HitOutcomes |-> FSub(One, cdf(get_outcome_rv(self, o), x))]
             ELSE [o \in HitOutcomes |-> pdf(get_outcome_rv(self, o), x)]
    IN  IF lb_set /\ x < self.cap_lb[1] THEN Zero
        ELSE IF ub_set /\ x > self.cap_ub[1] THEN Zero
        ELSE outcome_pdf_(self, f)

CapValues == {1, 2, 9}

SetCapUb ==
    /\ Len(args) < MaxCalls
    /\ \E ub \in CapValues :
          /\ atk' = set_cap_ub(atk, ub)
          /\ args' = Append(args, [call |-> "set_cap_ub", ub |-> ub])
    /\ out' = None
    /\ UNCHANGED <<rv, nops, multi>>

NextCap == AttackAddDamage \/ AttackFinishSetup \/ SetCapUb

SpecCap == InitSetup /\ [][NextCap]_vars

AtOrAbove(r, x) == FSub(One, cdf(r, x - 1))

\* C27: with an upper cap set, pdf(cap) is the sum over the outcomes of
\* chance(o) * P(X_o >= cap), the pdf is 0 above the cap, and the
\* RandomVariable get_rv returns still sums to exactly 1.
C27_UpperCapFoldsMass ==
    (atk.is_setup_ /\ atk.cap_ub # None /\ ChanceSum(atk) = One) =>
        LET cap == atk.cap_ub[1]
        IN  /\ OutcomeRV_pdf(atk, cap) =
                  outcome_pdf_(atk, [o \in HitOutcomes |-> AtOrAbove(get_outcome_rv(atk, o), cap)])
            /\ \A k \in 1..Margin : OutcomeRV_pdf(atk, cap + k) = Zero
            /\ TotalMass(get_rv(atk)) = One

\* The mass an outcome has exactly at the cap.
MassAtCap ==
    outcome_pdf_(atk, [o \in HitOutcomes |-> pdf(get_outcome_rv(atk, o), atk.cap_ub[1])])

(***************************************************************************)
(* Who holds the Attacks of a MultiAttack.  add_attack appends the object  *)
(* it is handed, so the list and the caller refer to the same objects:     *)
(* atk is the caller's objects by identity, args the identities the list   *)
(* multi.attacks holds in order, and multi the MultiAttack with the        *)
(* current value of each listed object.  out is the last call made.        *)
(***************************************************************************)
MaxObjects == 2
MaxAliasCalls == 3

Held(self, objects, refs) ==
    [self EXCEPT !.attacks = [i \in 1..Len(refs) |-> objects[refs[i]]]]

InitAlias ==
    /\ atk \in [1..MaxObjects -> AttackPool]
    /\ args = << >>
    /\ multi = MultiAttack
    /\ out = None
    /\ nops = 0
    /\ rv = None

AliasAddAttack ==
    /\ nops < MaxAliasCalls
    /\ Len(args) < MaxAttacks
    /\ \E obj \in 1..MaxObjects :
          /\ atk' = [atk EXCEPT ![obj] = finish_setup(atk[obj])]
          /\ args' = Append(args, obj)
          /\ multi' = Held(add_attack(multi, atk[obj]), atk', args')
          /\ out' = [call |-> "add_attack", obj |-> obj]
    /\ nops' = nops + 1
    /\ UNCHANGED rv

CallerAddDamage ==
    /\ nops < MaxAliasCalls
    /\ \E obj \in 1..MaxObjects, damage \in FirstHitPool :
          /\ atk' = [atk EXCEPT ![obj] = Attack_add_damage(atk[obj], damage)]
          /\ out' = [call |-> "add_damage", obj |-> obj]
    /\ multi' = Held(multi, atk', args)
    /\ nops' = nops + 1
    /\ UNCHANGED <<rv, args>>

CallerSetCapUb ==
    /\ nops < MaxAliasCalls
    /\ \E obj \in 1..MaxObjects, ub \in CapValues :
          /\ atk' = [atk EXCEPT ![obj] = set_cap_ub(atk[obj], ub)]
          /\ out' = [call |-> "set_cap_ub", obj |-> obj]
    /\ multi' = Held(multi, atk', args)
    /\ nops' = nops + 1
    /\ UNCHANGED <<rv, args>>

NextAlias == AliasAddAttack \/ CallerAddDamage \/ CallerSetCapUb

SpecAlias == InitAlias /\ [][NextAlias]_vars

\* C29: add_attack gives the MultiAttack its own copy of the Attack: the call
\* does not modify the caller's Attack, and a later change to the caller's
\* Attack changes neither the attacks the MultiAttack stores nor the result of
\* get_dmg_rv, also when the same object was added several times.
C29_AddAttackStoresCopy ==
    [][nops' = nops + 1 =>
          IF out'.call = "add_attack"
          THEN atk'[out'.obj] = atk[out'.obj]
          ELSE /\ multi'.attacks = multi.attacks
               /\ get_dmg_rv(multi') = get_dmg_rv(multi)]_vars

====
